---- MODULE Spec2Model ----
(***************************************************************************)
(* Model of the WSA client API (wsa_api.cpp): the sweep-list manager, the  *)
(* setters and getters of the instrument settings and the VRT packet       *)
(* reader, together with the remote instrument they talk to over the       *)
(* command and the data channel.                                           *)
(*                                                                         *)
(* Every API call is one atomic action (the API is blocking and single     *)
(* threaded).  A call leaves behind: op/arg (which call, which argument),  *)
(* ret (its return value), io (every channel event of the call, in order), *)
(* pre (the instrument as it was when the call began) and mem (the memory  *)
(* of the caller that the out-parameters of the API point to).             *)
(*                                                                         *)
(* The calls are spread over several specifications, one for each part of  *)
(* the API, over the same variables.                                       *)
(***************************************************************************)
EXTENDS Integers, Sequences, FiniteSets, TLC

VARIABLES
    inst,    \* the remote instrument: sweep_status, sweep_list, template
    descr,   \* dev->descr, the device descriptor filled in when opening
    op,      \* name of the last API call
    arg,     \* its integer argument (entry id, frequency, ...)
    ret,     \* its return value (int16_t)
    io,      \* channel events of the last call
    pre,     \* inst before the last call
    mem,     \* the caller's memory behind the out-parameters
    loc      \* position and locals of a call that is followed step by step

vars == <<inst, descr, op, arg, ret, io, pre, mem, loc>>

(***************************************************************************)
(* Bounds of the model.                                                    *)
(***************************************************************************)
MaxList == 2       \* longest sweep list the instrument is driven to
MaxDrain == 2      \* most receive iterations of the drain loop of sweep_stop
IntBits == 10      \* width standing for the 64 bits of int64_t / uint64_t
MaxSamples == 2    \* most sample pairs in one packet, and length of the I/Q buffers

(***************************************************************************)
(* Error codes (wsa_error.h).  Only their sign and their being distinct    *)
(* matter to the code modelled here.                                       *)
(***************************************************************************)
WSA_ERR_CMDSENDFAILED == -1
WSA_ERR_QUERYNORESP == -2
WSA_ERR_RESPUNKNOWN == -3
WSA_ERR_SOCKETERROR == -4
WSA_ERR_NOTIQFRAME == -5
WSA_ERR_FREQOUTOFBOUND == -6
WSA_ERR_INVRFESETTING == -7
WSA_ERR_INVANTENNAPORT == -8
WSA_ERR_SWEEPALREADYRUNNING == -9
WSA_ERR_SWEEPLISTEMPTY == -10
WSA_ERR_SWEEPIDOOB == -11
WSA_ERR_SWEEPENTRYDELETEFAIL == -12
WSA_ERR_SWEEPMODEUNDEF == -13
WSA_ERR_INVDECIMATIONRATE == -14
WSA_ERR_INVNUMBER == -15
WSA_ERR_INVIFGAIN == -16
WSA_ERR_INVRFGAIN == -17
WSA_ERR_INVSAMPLESIZE == -18
WSA_ERR_INVCAPTURESIZE == -19
WSA_ERR_STARTOOB == -20
WSA_ERR_STOPOOB == -21
WSA_ERR_INVSTOPFREQ == -22
WSA_ERR_INVALID_DWELL == -23
WSA_ERR_INVTRIGGERMODE == -24
WSA_ERR_OPENFAILED == -25
WSA_ERR_ETHERNETCONNECTFAILED == -26
WSA_ERR_INVIPHOSTADDRESS == -29
WSA_ERR_WINSOCKSTARTUPFAILED == -30

(***************************************************************************)
(* Device constants (wsa_lib.h).                                           *)
(***************************************************************************)
WSA_RFE0560_MAX_IF_GAIN == 34
WSA_RFE0560_MIN_IF_GAIN == -10
WSA_RFE0560_MAX_DECIMATION == 1023
WSA_RFE0560_MIN_DECIMATION == 16
WSA_RFE0560_MAX_ANT_PORT == 2
WSA_RFE0560_MAX_FREQ == 11000
WSA_RFE0560_MIN_FREQ == 100000
WSA4000_INST_BW == 125000000
WSA4000_MAX_PKT_SIZE == 32768
NUM_RF_GAINS == 5
WSA_RFE0440_ABS_AMP_HIGH == -15
WSA_RFE0440_ABS_AMP_MED == 0
WSA_RFE0440_ABS_AMP_LOW == 13
WSA_RFE0440_ABS_AMP_VLOW == 20
WSA_RFE0560_ABS_AMP_HIGH == -15
WSA_RFE0560_ABS_AMP_MED == 0
WSA_RFE0560_ABS_AMP_LOW == 13
WSA_RFE0560_ABS_AMP_VLOW == 20

\* enum wsa_gain
WSA_GAIN_HIGH == 1
WSA_GAIN_MED == 2
WSA_GAIN_LOW == 3
WSA_GAIN_VLOW == 4

\* the limits of the capture size, in units that fit the numbers of the model
WSA4000_MIN_SAMPLES_PER_PACKET == 20
WSA4000_MAX_SAMPLES_PER_PACKET == 22
WSA4000_MIN_PACKETS_PER_BLOCK == 1
WSA4000_MAX_PACKETS_PER_BLOCK == 8

\* the tuning range the descriptor is given when the device is opened, in
\* units that fit the reduced integer width
MinTuneFreq == 100
MaxTuneFreq == 200
\* the tuning resolution of the instrument: it tunes to the multiple of the
\* resolution at or below the frequency it is given
FreqResolution == 10

(***************************************************************************)
(* Channel events.  A write is logged when it is attempted, with the       *)
(* argument of the command line and the result of the write; a reply event *)
(* carries the reply text and the status of the query (bytes read, 0 for   *)
(* an empty reply, negative on failure); a recv is one receive on the data *)
(* channel, with what was received and the result.                         *)
(***************************************************************************)
Wr(text, n, r) == [ch |-> "cmd", ev |-> "write", text |-> text, arg |-> n, res |-> r]
Rp(text, status) == [ch |-> "cmd", ev |-> "reply", text |-> text, arg |-> 0, res |-> status]
Rv(text, r) == [ch |-> "data", ev |-> "recv", text |-> text, arg |-> 0, res |-> r]

\* outcomes of wsa_send_command: 0, or a negative error when the write fails
SendResults == {0, WSA_ERR_CMDSENDFAILED}

(***************************************************************************)
(* The sweep entries of the instrument and how it writes them.             *)
(***************************************************************************)
AntPorts == 1 .. WSA_RFE0560_MAX_ANT_PORT

\* the sweep entry template after SWEEP:ENTRY:NEW
DefaultEntry ==
    [ start_freq |-> MinTuneFreq, stop_freq |-> MaxTuneFreq, fstep |-> 1, fshift |-> 0,
      decimation_rate |-> 0, ant_port |-> 1, gain_rf |-> "HIGH", gain_if |-> 0,
      samples_per_packet |-> 20, packets_per_block |-> 1,
      dwell_seconds |-> 0, dwell_microseconds |-> 0, trigger_type |-> "NONE",
      trigger_start_freq |-> MinTuneFreq, trigger_stop_freq |-> MaxTuneFreq,
      trigger_amplitude |-> 0 ]

\* the entries the sweep list manager builds from the template
Entries == { [DefaultEntry EXCEPT !.ant_port = p] : p \in AntPorts }

\* two entries as the setters of the template configure them, one for each
\* trigger type, every setting of one differing from that of the other
EntryLevel ==
    [ start_freq |-> MinTuneFreq, stop_freq |-> MaxTuneFreq, fstep |-> 5, fshift |-> 6,
      decimation_rate |-> WSA_RFE0560_MIN_DECIMATION, ant_port |-> 2, gain_rf |-> "VLOW",
      gain_if |-> WSA_RFE0560_MAX_IF_GAIN, samples_per_packet |-> 21,
      packets_per_block |-> 8, dwell_seconds |-> 9, dwell_microseconds |-> 10,
      trigger_type |-> "LEVEL", trigger_start_freq |-> MinTuneFreq + 1,
      trigger_stop_freq |-> MaxTuneFreq - 1, trigger_amplitude |-> -5 ]
EntryNone ==
    [ start_freq |-> MinTuneFreq + 1, stop_freq |-> MaxTuneFreq - 1, fstep |-> 2, fshift |-> 3,
      decimation_rate |-> 0, ant_port |-> 1, gain_rf |-> "LOW",
      gain_if |-> WSA_RFE0560_MIN_IF_GAIN, samples_per_packet |-> 22,
      packets_per_block |-> 4, dwell_seconds |-> 11, dwell_microseconds |-> 12,
      trigger_type |-> "NONE", trigger_start_freq |-> MinTuneFreq,
      trigger_stop_freq |-> MaxTuneFreq, trigger_amplitude |-> -7 ]

\* fields joined by commas, as the instrument writes a record
RECURSIVE Join(_)
Join(fields) ==
    IF Len(fields) = 0 THEN ""
    ELSE IF Len(fields) = 1 THEN fields[1]
    ELSE fields[1] \o "," \o Join(Tail(fields))

\* the record the instrument answers SWEEP:ENTRY:READ? with: the trigger
\* levels follow the trigger type only when the type is LEVEL
EntryRecord(e) ==
    Join(<< ToString(e.start_freq), ToString(e.stop_freq), ToString(e.fstep),
            ToString(e.fshift), ToString(e.decimation_rate), ToString(e.ant_port),
            e.gain_rf, ToString(e.gain_if), ToString(e.samples_per_packet),
            ToString(e.packets_per_block), ToString(e.dwell_seconds),
            ToString(e.dwell_microseconds), e.trigger_type >>
         \o (IF e.trigger_type = "LEVEL"
             THEN << ToString(e.trigger_start_freq), ToString(e.trigger_stop_freq),
                     ToString(e.trigger_amplitude) >>
             ELSE << >>))

\* sprintf(temp_str, "SWEEP:ENTRY:READ? %d\n", id)
ReadLine(id) == "SWEEP:ENTRY:READ? " \o ToString(id)

\* what the instrument answers to a query line
Answer(i, text) ==
    CASE text = "SWEEP:LIST:STATUS?" -> i.sweep_status
      [] text = "SWEEP:ENTRY:COUNT?" -> ToString(Len(i.sweep_list))
      [] text = "FREQ:CENT?" -> ToString(i.freq)
      [] text = ":SENSE:DEC?" -> ToString(i.decimation)
      [] text = "INPUT:GAIN:IF?" -> ToString(i.gain_if)
      [] text = "INPUT:GAIN:RF?" -> i.gain_rf
      [] text = "FREQ:SHIFT?" -> ToString(i.fshift)
      [] text = "SWEEP:ENTRY:FREQ:CENTER?" ->
           Join(<<ToString(i.template.start_freq), ToString(i.template.stop_freq)>>)
      [] text = "SWEEP:ENTRY:FREQ:SHIFT?" -> ToString(i.template.fshift)
      [] text = "SWEEP:ENTRY:DECIMATION?" -> ToString(i.template.decimation_rate)
      [] text = "SWEEP:ENTRY:GAIN:RF?" -> i.template.gain_rf
      [] text = "SWEEP:ENTRY:TRIGGER:TYPE?" -> i.template.trigger_type
      [] \E n \in 1 .. Len(i.sweep_list) : text = ReadLine(n) ->
           EntryRecord(i.sweep_list[CHOOSE n \in 1 .. Len(i.sweep_list) : text = ReadLine(n)])
      [] OTHER -> ""

\* a well-formed number that lies below (k = "low") or above (k = "high") the
\* range the descriptor declares for the setting the query line asks for
Stray(text, k) ==
    CASE text = "FREQ:CENT?" ->
           ToString(IF k = "low" THEN MinTuneFreq - 1 ELSE MaxTuneFreq + 1)
      [] text = ":SENSE:DEC?" ->
           ToString(IF k = "low" THEN WSA_RFE0560_MIN_DECIMATION - 1
                    ELSE WSA_RFE0560_MAX_DECIMATION + 1)
      [] text = "INPUT:GAIN:IF?" ->
           ToString(IF k = "low" THEN WSA_RFE0560_MIN_IF_GAIN - 1
                    ELSE WSA_RFE0560_MAX_IF_GAIN + 1)
      [] text = "SWEEP:ENTRY:DECIMATION?" ->
           ToString(IF k = "low" THEN WSA_RFE0560_MIN_DECIMATION - 1
                    ELSE WSA_RFE0560_MAX_DECIMATION + 1)
      [] text \in {"FREQ:SHIFT?", "SWEEP:ENTRY:FREQ:SHIFT?"} ->
           ToString(IF k = "low" THEN (0 - WSA4000_INST_BW) - 1 ELSE WSA4000_INST_BW + 1)
      [] text = "SWEEP:ENTRY:FREQ:CENTER?" ->
           IF k = "low" THEN Join(<<ToString(MinTuneFreq - 1), ToString(MaxTuneFreq)>>)
           ELSE Join(<<ToString(MinTuneFreq), ToString(MaxTuneFreq + 1)>>)
      [] OTHER -> "?"

\* how a query can end: no response within the timeout, an empty reply, the
\* instrument's answer, or a reply the protocol does not allow
ReplyKinds == {"noresp", "empty", "answer", "garbled"}
\* for a numeric setting also: a number outside the declared range
NumReplyKinds == ReplyKinds \cup {"low", "high"}

\* wsa_send_query(dev, text, &query): the struct wsa_resp that is handed back;
\* status is the number of bytes read or a negative error
wsa_send_query(i, text, k) ==
    CASE k = "noresp" -> [status |-> WSA_ERR_QUERYNORESP, output |-> ""]
      [] k = "empty" -> [status |-> 0, output |-> ""]
      [] k = "answer" -> [status |-> Len(Answer(i, text)), output |-> Answer(i, text)]
      [] k \in {"low", "high"} -> [status |-> Len(Stray(text, k)), output |-> Stray(text, k)]
      [] OTHER -> [status |-> 1, output |-> "?"]

\* the channel events of one query: the line written, the reply read
QueryIO(text, q) == <<Wr(text, 0, 0), Rp(q.output, q.status)>>

\* to_double / to_int (wsa_commons): parse a decimal reply; the inverse of the
\* instrument's decimal formatting, found by search over the numbers that
\* replies carry in this model
NumRange ==
    ((WSA_RFE0560_MIN_IF_GAIN - 1) .. (WSA_RFE0560_MAX_IF_GAIN + 1))
        \cup (0 .. (MaxList + 2))
        \cup ((MinTuneFreq - 1) .. (MinTuneFreq + 1))
        \cup {MinTuneFreq + FreqResolution}
        \cup ((MaxTuneFreq - 1) .. (MaxTuneFreq + 1))
        \cup {WSA_RFE0560_MAX_DECIMATION, WSA_RFE0560_MAX_DECIMATION + 1}
        \cup {(0 - WSA4000_INST_BW) - 1, WSA4000_INST_BW + 1}
to_double(str) ==
    IF \E n \in NumRange : ToString(n) = str
    THEN [result |-> 0, val |-> CHOOSE n \in NumRange : ToString(n) = str]
    ELSE [result |-> -1, val |-> 0]
to_int(str) ==
    IF \E n \in NumRange : ToString(n) = str
    THEN [result |-> 0, val |-> CHOOSE n \in NumRange : ToString(n) = str]
    ELSE [result |-> -1, val |-> 0]

(***************************************************************************)
(* The instrument.                                                         *)
(***************************************************************************)
InsertAt(s, k, e) == SubSeq(s, 1, k - 1) \o <<e>> \o SubSeq(s, k, Len(s))
RemoveAt(s, k) == SubSeq(s, 1, k - 1) \o SubSeq(s, k + 1, Len(s))

\* effect of one command line that reached the instrument; of the settings
\* of the template the antenna port is followed
Instrument(i, text, n) ==
    CASE text = "SWEEP:LIST:START" ->
           IF Len(i.sweep_list) > 0 THEN [i EXCEPT !.sweep_status = "RUNNING"] ELSE i
      [] text = "SWEEP:LIST:RESUME" ->
           IF Len(i.sweep_list) > 0 THEN [i EXCEPT !.sweep_status = "RUNNING"] ELSE i
      [] text = "SWEEP:LIST:STOP" -> [i EXCEPT !.sweep_status = "STOPPED"]
      [] text = "SWEEP:ENTRY:NEW" -> [i EXCEPT !.template = DefaultEntry]
      [] text = "SWEEP:ENTRY:ANTENNA" -> [i EXCEPT !.template.ant_port = n]
      [] text = "SWEEP:ENTRY:SAVE" ->
           IF n = 0 THEN [i EXCEPT !.sweep_list = Append(@, i.template)]
           ELSE IF n \in 1 .. (Len(i.sweep_list) + 1)
                THEN [i EXCEPT !.sweep_list = InsertAt(@, n, i.template)]
                ELSE i
      [] text = "SWEEP:ENTRY:DELETE" ->
           IF n \in 1 .. Len(i.sweep_list)
           THEN [i EXCEPT !.sweep_list = RemoveAt(@, n)]
           ELSE i
      [] text = "SWEEP:ENTRY:DELETE ALL" -> [i EXCEPT !.sweep_list = <<>>]
      [] text = "SWEEP:ENTRY:COPY" ->
           IF n \in 1 .. Len(i.sweep_list)
           THEN [i EXCEPT !.template = i.sweep_list[n]]
           ELSE i
      [] text = "FREQ:CENT" -> [i EXCEPT !.freq = n - (n % FreqResolution)]
      [] text = "SENSE:DEC" -> [i EXCEPT !.decimation = n]
      [] text = "INPUT:GAIN:RF" -> [i EXCEPT !.gain_rf = n]
      [] OTHER -> i

\* wsa_send_command(dev, text): the line is written; it reaches the instrument
\* unless the write failed
Sent(i, text, n, snd) == IF snd < 0 THEN i ELSE Instrument(i, text, n)

\* what a call hands back to the action that models it
Out(r, events, i) == [ret |-> r, io |-> events, inst |-> i]

(***************************************************************************)
(* wsa_check_addr                                                          *)
(***************************************************************************)
\* one call of wsa_verify_addr, with the port and its result
Vf(port, r) == [ch |-> "none", ev |-> "verify", text |-> port, arg |-> 0, res |-> r]

\* outcomes of wsa_verify_addr: 0, or a negative error
VerifyResults == {0, WSA_ERR_INVIPHOSTADDRESS, WSA_ERR_WINSOCKSTARTUPFAILED}

\* what wsa_check_addr hands back: the result and the calls it made
OutAddr(r, events) == [ret |-> r, io |-> events]

\* both ports are verified before a result is looked at
wsa_check_addr_both(r1, r2) ==
    LET io2 == <<Vf("37001", r1), Vf("37000", r2)>>
    IN  IF r1 < 0 THEN OutAddr(r1, io2)
        ELSE IF r2 < 0 THEN OutAddr(r2, io2)
        ELSE OutAddr(0, io2)

\* r1, r2: the results of wsa_verify_addr for the command port and for the
\* data port, when it is called
wsa_check_addr(r1, r2) ==
    LET io1 == <<Vf("37001", r1)>>
        io2 == io1 \o <<Vf("37000", r2)>>
    IN  IF r1 < 0 THEN OutAddr(r1, io1)
        ELSE IF r2 < 0 THEN OutAddr(r2, io2)
        ELSE OutAddr(0, io2)

(***************************************************************************)
(* wsa_dev_init / wsa_open (src/wsa_api.cpp) / wsa_get_abs_max_amp         *)
(***************************************************************************)
\* one call of wsa_connect, with the interface method and its result
Cn(text, r) == [ch |-> "cmd", ev |-> "connect", text |-> text, arg |-> 0, res |-> r]

\* outcomes of wsa_connect: 0, or a negative error
ConnectResults == {0, WSA_ERR_ETHERNETCONNECTFAILED}

\* strncmp(str, prefix, strlen(prefix)) == 0
HasPrefix(str, prefix) ==
    Len(str) >= Len(prefix) /\ SubSeq(str, 1, Len(prefix)) = prefix

wsa_dev_init(d) ==
    [d EXCEPT !.inst_bw = 0, !.max_pkt_size = 0, !.max_tune_freq = 0, !.min_tune_freq = 0,
              !.prod_name = "", !.prod_serial = "", !.prod_version = "",
              !.rfe_name = "", !.rfe_version = "", !.fw_version = ""]

\* what wsa_open hands back: the result, the descriptor it leaves and the
\* calls of wsa_connect it made
OutOpen(r, d, events) == [ret |-> r, descr |-> d, io |-> events]

\* the third step of wsa_open: values that depend on the model
ModelValues(d) ==
    LET d1 == [d EXCEPT !.max_pkt_size = WSA4000_MAX_PKT_SIZE, !.inst_bw = WSA4000_INST_BW]
    IN  IF d.prod_name = "WSA4000"
        THEN IF d.rfe_name = "RFE0560"
             THEN [d1 EXCEPT !.max_tune_freq = WSA_RFE0560_MAX_FREQ,
                             !.min_tune_freq = WSA_RFE0560_MIN_FREQ]
             ELSE d1
        ELSE d

\* conn: the result of wsa_connect, when it is called
wsa_open(d, intf_method, conn) ==
    LET d0 == wsa_dev_init(d)
        d1 == [d0 EXCEPT !.prod_name = "WSA4000", !.prod_serial = "TO BE DETERMINED",
                         !.prod_version = "v1.0", !.rfe_name = "RFE0560",
                         !.rfe_version = "v1.0", !.fw_version = "v1.0"]
    IN  IF HasPrefix(intf_method, "USB") THEN OutOpen(WSA_ERR_OPENFAILED, d0, <<>>)
        ELSE IF HasPrefix(intf_method, "TCPIP")
             THEN IF conn < 0
                  THEN OutOpen(WSA_ERR_ETHERNETCONNECTFAILED, d0, <<Cn(intf_method, conn)>>)
                  ELSE OutOpen(0, ModelValues(d1), <<Cn(intf_method, conn)>>)
        ELSE OutOpen(WSA_ERR_OPENFAILED, d0, <<>>)

\* what wsa_get_abs_max_amp hands back: the result, the caller's float and
\* the descriptor
OutAmp(r, v, d) == [ret |-> r, val |-> v, descr |-> d]

\* the level that is handed back is also kept in the unused element 0
wsa_get_abs_max_amp_kept(d, gain, value) ==
    IF gain < WSA_GAIN_VLOW \/ gain > WSA_GAIN_HIGH
    THEN OutAmp(WSA_ERR_INVRFGAIN, value, [d EXCEPT !.abs_max_amp[0] = gain])
    ELSE OutAmp(0, d.abs_max_amp[gain], d)

\* value: the caller's variable as it was before the call
wsa_get_abs_max_amp(d, gain, value) ==
    IF gain < WSA_GAIN_VLOW \/ gain > WSA_GAIN_HIGH
    THEN OutAmp(WSA_ERR_INVRFGAIN, value, d)
    ELSE OutAmp(0, d.abs_max_amp[gain], d)

(***************************************************************************)
(* wsa_get_sweep_status / wsa_get_sweep_entry_size                         *)
(***************************************************************************)
\* buf is the caller's status buffer as it was before the call
wsa_get_sweep_status(q, buf) ==
    IF q.status <= 0 THEN [result |-> q.status, status |-> buf]
    ELSE IF q.output # "STOPPED" /\ q.output # "RUNNING"
         THEN [result |-> WSA_ERR_SWEEPMODEUNDEF, status |-> buf]
         ELSE [result |-> 0, status |-> q.output]

\* sz is the caller's size variable as it was before the call
wsa_get_sweep_entry_size(q, sz) ==
    IF q.status <= 0 THEN [result |-> q.status, size |-> sz]
    ELSE IF to_double(q.output).result < 0
         THEN [result |-> WSA_ERR_RESPUNKNOWN, size |-> sz]
         ELSE [result |-> 0, size |-> to_double(q.output).val]

\* contents an uninitialised char status[40] / int32_t size can have
UninitStatus == {"STOPPED", "RUNNING", "?"}
UninitSize == -1 .. (MaxList + 1)

(***************************************************************************)
(* wsa_sweep_start                                                         *)
(***************************************************************************)
\* the size is asked before the reply to the status query has been read
wsa_sweep_start_pipelined(i, ks, ub, kz, snd) ==
    LET qs == wsa_send_query(i, "SWEEP:LIST:STATUS?", ks)
        st == wsa_get_sweep_status(qs, ub)
        qz == wsa_send_query(i, "SWEEP:ENTRY:COUNT?", kz)
        sz == wsa_get_sweep_entry_size(qz, 0)
        io2 == << Wr("SWEEP:LIST:STATUS?", 0, 0), Wr("SWEEP:ENTRY:COUNT?", 0, 0),
                  Rp(qs.output, qs.status), Rp(qz.output, qz.status) >>
        io3 == io2 \o <<Wr("SWEEP:LIST:START", 0, snd)>>
    IN  IF st.result < 0 THEN Out(st.result, io2, i)
        ELSE IF st.status = "RUNNING" THEN Out(WSA_ERR_SWEEPALREADYRUNNING, io2, i)
        ELSE IF sz.result < 0 THEN Out(sz.result, io2, i)
        ELSE IF sz.size <= 0 THEN Out(WSA_ERR_SWEEPLISTEMPTY, io2, i)
        ELSE IF snd < 0 THEN Out(snd, io3, i)
        ELSE Out(0, io3, Sent(i, "SWEEP:LIST:START", 0, snd))

wsa_sweep_start(i, ks, ub, kz, snd) ==
    LET qs == wsa_send_query(i, "SWEEP:LIST:STATUS?", ks)
        st == wsa_get_sweep_status(qs, ub)
        qz == wsa_send_query(i, "SWEEP:ENTRY:COUNT?", kz)
        sz == wsa_get_sweep_entry_size(qz, 0)
        io1 == QueryIO("SWEEP:LIST:STATUS?", qs)
        io2 == io1 \o QueryIO("SWEEP:ENTRY:COUNT?", qz)
        io3 == io2 \o <<Wr("SWEEP:LIST:START", 0, snd)>>
    IN  IF st.result < 0 THEN Out(st.result, io1, i)
        ELSE IF st.status = "RUNNING" THEN Out(WSA_ERR_SWEEPALREADYRUNNING, io1, i)
        ELSE IF sz.result < 0 THEN Out(sz.result, io2, i)
        ELSE IF sz.size <= 0 THEN Out(WSA_ERR_SWEEPLISTEMPTY, io2, i)
        ELSE IF snd < 0 THEN Out(snd, io3, i)
        ELSE Out(0, io3, Sent(i, "SWEEP:LIST:START", 0, snd))

(***************************************************************************)
(* wsa_sweep_resume                                                        *)
(***************************************************************************)
\* what is left on the data channel is read before the sweep is resumed
wsa_sweep_resume_drains(i, ks, ub, kz, snd) ==
    LET qs == wsa_send_query(i, "SWEEP:LIST:STATUS?", ks)
        st == wsa_get_sweep_status(qs, ub)
        qz == wsa_send_query(i, "SWEEP:ENTRY:COUNT?", kz)
        sz == wsa_get_sweep_entry_size(qz, 0)
        io1 == QueryIO("SWEEP:LIST:STATUS?", qs)
        io2 == io1 \o QueryIO("SWEEP:ENTRY:COUNT?", qz)
        io3 == io2 \o <<Rv("discard", 0), Wr("SWEEP:LIST:RESUME", 0, snd)>>
    IN  IF st.result < 0 THEN Out(st.result, io1, i)
        ELSE IF st.status = "RUNNING" THEN Out(WSA_ERR_SWEEPALREADYRUNNING, io1, i)
        ELSE IF sz.result < 0 THEN Out(sz.result, io2, i)
        ELSE IF sz.size <= 0 THEN Out(WSA_ERR_SWEEPLISTEMPTY, io2, i)
        ELSE IF snd < 0 THEN Out(snd, io3, i)
        ELSE Out(0, io3, Sent(i, "SWEEP:LIST:RESUME", 0, snd))

wsa_sweep_resume(i, ks, ub, kz, snd) ==
    LET qs == wsa_send_query(i, "SWEEP:LIST:STATUS?", ks)
        st == wsa_get_sweep_status(qs, ub)
        qz == wsa_send_query(i, "SWEEP:ENTRY:COUNT?", kz)
        sz == wsa_get_sweep_entry_size(qz, 0)
        io1 == QueryIO("SWEEP:LIST:STATUS?", qs)
        io2 == io1 \o QueryIO("SWEEP:ENTRY:COUNT?", qz)
        io3 == io2 \o <<Wr("SWEEP:LIST:RESUME", 0, snd)>>
    IN  IF st.result < 0 THEN Out(st.result, io1, i)
        ELSE IF st.status = "RUNNING" THEN Out(WSA_ERR_SWEEPALREADYRUNNING, io1, i)
        ELSE IF sz.result < 0 THEN Out(sz.result, io2, i)
        ELSE IF sz.size <= 0 THEN Out(WSA_ERR_SWEEPLISTEMPTY, io2, i)
        ELSE IF snd < 0 THEN Out(snd, io3, i)
        ELSE Out(0, io3, Sent(i, "SWEEP:LIST:RESUME", 0, snd))

(***************************************************************************)
(* wsa_flush_data / wsa_system_abort_capture                               *)
(***************************************************************************)
wsa_flush_data(i, ks, ub, snd) ==
    LET qs == wsa_send_query(i, "SWEEP:LIST:STATUS?", ks)
        st == wsa_get_sweep_status(qs, ub)
        io1 == QueryIO("SWEEP:LIST:STATUS?", qs)
        io2 == io1 \o <<Wr("SWEEP:FLUSH", 0, snd)>>
    IN  IF st.result < 0 THEN Out(st.result, io1, i)
        ELSE IF st.status = "RUNNING" THEN Out(WSA_ERR_SWEEPALREADYRUNNING, io1, i)
        ELSE IF snd < 0 THEN Out(snd, io2, i)
        ELSE Out(0, io2, Sent(i, "SWEEP:FLUSH", 0, snd))

wsa_system_abort_capture(i, ks, ub, snd) ==
    LET qs == wsa_send_query(i, "SWEEP:LIST:STATUS?", ks)
        st == wsa_get_sweep_status(qs, ub)
        io1 == QueryIO("SWEEP:LIST:STATUS?", qs)
        io2 == io1 \o <<Wr("SYSTEM:ABORT", 0, snd)>>
    IN  IF st.result < 0 THEN Out(st.result, io1, i)
        ELSE IF st.status = "RUNNING" THEN Out(WSA_ERR_SWEEPALREADYRUNNING, io1, i)
        ELSE IF snd < 0 THEN Out(snd, io2, i)
        ELSE Out(0, io2, Sent(i, "SYSTEM:ABORT", 0, snd))

(***************************************************************************)
(* wsa_sweep_stop                                                          *)
(***************************************************************************)
\* n receives of wsa_sock_recv_data in the loop while (clock() <= end_time);
\* what they return is thrown away.  The window has just been opened when the
\* loop is entered, so the body runs at least once.
Drain(n) == [k \in 1 .. n |-> Rv("discard", 0)]

\* snd1: the write of the stop line; lag: the instrument has not stopped yet
\* when its status is asked next; ks, ub, snd2: wsa_flush_data; n: the drain
\* the result of wsa_flush_data is not looked at
wsa_sweep_stop_unchecked(i, snd1, lag, ks, ub, snd2, n) ==
    LET io1 == <<Wr("SWEEP:LIST:STOP", 0, snd1)>>
        i1 == Sent(i, "SWEEP:LIST:STOP", 0, snd1)
        fl == wsa_flush_data(IF lag THEN i ELSE i1, ks, ub, snd2)
    IN  IF snd1 < 0 THEN Out(snd1, io1, i)
        ELSE Out(0, io1 \o fl.io \o Drain(n), i1)

wsa_sweep_stop(i, snd1, lag, ks, ub, snd2, n) ==
    LET io1 == <<Wr("SWEEP:LIST:STOP", 0, snd1)>>
        i1 == Sent(i, "SWEEP:LIST:STOP", 0, snd1)
        fl == wsa_flush_data(IF lag THEN i ELSE i1, ks, ub, snd2)
    IN  IF snd1 < 0 THEN Out(snd1, io1, i)
        ELSE IF fl.ret < 0 THEN Out(fl.ret, io1 \o fl.io, i1)
        ELSE Out(0, io1 \o fl.io \o Drain(n), i1)

(***************************************************************************)
(* Sweep entries: new, template antenna, save, delete, delete all, copy    *)
(***************************************************************************)
wsa_sweep_entry_new(i, snd) ==
    Out(snd, <<Wr("SWEEP:ENTRY:NEW", 0, snd)>>, Sent(i, "SWEEP:ENTRY:NEW", 0, snd))

wsa_set_sweep_antenna(i, d, port_num, snd) ==
    IF d.rfe_name = "RFE0440" THEN Out(WSA_ERR_INVRFESETTING, <<>>, i)
    ELSE IF port_num < 1 \/ port_num > WSA_RFE0560_MAX_ANT_PORT
         THEN Out(WSA_ERR_INVANTENNAPORT, <<>>, i)
         ELSE Out(snd, <<Wr("SWEEP:ENTRY:ANTENNA", port_num, snd)>>,
                  Sent(i, "SWEEP:ENTRY:ANTENNA", port_num, snd))

\* the command line carries id + 1
wsa_sweep_entry_save_next(i, id, kz, snd) ==
    LET qz == wsa_send_query(i, "SWEEP:ENTRY:COUNT?", kz)
        sz == wsa_get_sweep_entry_size(qz, 0)
        io1 == QueryIO("SWEEP:ENTRY:COUNT?", qz)
        io2 == io1 \o <<Wr("SWEEP:ENTRY:SAVE", id + 1, snd)>>
    IN  IF sz.result < 0 THEN Out(sz.result, io1, i)
        ELSE IF id < 0 \/ id > sz.size + 1 THEN Out(WSA_ERR_SWEEPIDOOB, io1, i)
        ELSE Out(snd, io2, Sent(i, "SWEEP:ENTRY:SAVE", id + 1, snd))

wsa_sweep_entry_save(i, id, kz, snd) ==
    LET qz == wsa_send_query(i, "SWEEP:ENTRY:COUNT?", kz)
        sz == wsa_get_sweep_entry_size(qz, 0)
        io1 == QueryIO("SWEEP:ENTRY:COUNT?", qz)
        io2 == io1 \o <<Wr("SWEEP:ENTRY:SAVE", id, snd)>>
    IN  IF sz.result < 0 THEN Out(sz.result, io1, i)
        ELSE IF id < 0 \/ id > sz.size + 1 THEN Out(WSA_ERR_SWEEPIDOOB, io1, i)
        ELSE Out(snd, io2, Sent(i, "SWEEP:ENTRY:SAVE", id, snd))

\* us: what the local int32_t size, which has no initialiser, holds
wsa_sweep_entry_delete(i, id, kz, us, snd) ==
    LET qz == wsa_send_query(i, "SWEEP:ENTRY:COUNT?", kz)
        sz == wsa_get_sweep_entry_size(qz, us)
        io1 == QueryIO("SWEEP:ENTRY:COUNT?", qz)
        io2 == io1 \o <<Wr("SWEEP:ENTRY:DELETE", id, snd)>>
    IN  IF sz.result < 0 THEN Out(WSA_ERR_SWEEPENTRYDELETEFAIL, io1, i)
        ELSE IF id < 1 \/ id > sz.size THEN Out(WSA_ERR_SWEEPIDOOB, io1, i)
        ELSE Out(snd, io2, Sent(i, "SWEEP:ENTRY:DELETE", id, snd))

wsa_sweep_entry_delete_all(i, snd) ==
    Out(snd, <<Wr("SWEEP:ENTRY:DELETE ALL", 0, snd)>>,
        Sent(i, "SWEEP:ENTRY:DELETE ALL", 0, snd))

\* the bounds check runs before the size is asked, on size = 0
wsa_sweep_entry_copy(i, id, kz, snd) ==
    LET size0 == 0
        qz == wsa_send_query(i, "SWEEP:ENTRY:COUNT?", kz)
        sz == wsa_get_sweep_entry_size(qz, size0)
        io1 == QueryIO("SWEEP:ENTRY:COUNT?", qz)
        io2 == io1 \o <<Wr("SWEEP:ENTRY:COPY", id, snd)>>
    IN  IF id < 0 \/ id > size0 THEN Out(WSA_ERR_SWEEPIDOOB, <<>>, i)
        ELSE IF sz.result < 0 THEN Out(sz.result, io1, i)
        ELSE IF sz.size = 0 THEN Out(WSA_ERR_SWEEPLISTEMPTY, io1, i)
        ELSE Out(snd, io2, Sent(i, "SWEEP:ENTRY:COPY", id, snd))

(***************************************************************************)
(* wsa_verify_freq / wsa_set_freq                                          *)
(***************************************************************************)
\* an int64_t argument passed for a uint64_t parameter
ToUint64(x) == x % (2 ^ IntBits)

\* the two bounds joined by "and": nothing is out of a non-empty range
wsa_verify_freq_both(d, freq) ==
    IF freq < d.min_tune_freq /\ freq > d.max_tune_freq
    THEN WSA_ERR_FREQOUTOFBOUND
    ELSE 0

wsa_verify_freq(d, freq) ==
    IF freq < d.min_tune_freq \/ freq > d.max_tune_freq
    THEN WSA_ERR_FREQOUTOFBOUND
    ELSE 0

\* the frequency is verified and no command is written
wsa_set_freq_unsent(i, d, cfreq, snd) ==
    LET result == wsa_verify_freq(d, ToUint64(cfreq))
    IN  IF result < 0 THEN Out(result, <<>>, i)
        ELSE Out(0, <<>>, i)

wsa_set_freq(i, d, cfreq, snd) ==
    LET result == wsa_verify_freq(d, ToUint64(cfreq))
        io1 == <<Wr("FREQ:CENT", cfreq, snd)>>
    IN  IF result < 0 THEN Out(result, <<>>, i)
        ELSE IF snd < 0 THEN Out(snd, io1, i)
        ELSE Out(0, io1, Sent(i, "FREQ:CENT", cfreq, snd))

(***************************************************************************)
(* The setters of the sweep entry template                                 *)
(***************************************************************************)
\* the limits are not looked at
wsa_set_sweep_gain_if_unchecked(i, d, gain, snd) ==
    LET io1 == <<Wr("SWEEP:ENTRY:GAIN:IF", gain, snd)>>
    IN  IF d.rfe_name = "RFE0440" THEN Out(WSA_ERR_INVRFESETTING, <<>>, i)
        ELSE IF snd < 0 THEN Out(snd, io1, i)
        ELSE Out(0, io1, Sent(i, "SWEEP:ENTRY:GAIN:IF", gain, snd))

wsa_set_sweep_gain_if(i, d, gain, snd) ==
    LET io1 == <<Wr("SWEEP:ENTRY:GAIN:IF", gain, snd)>>
    IN  IF d.rfe_name = "RFE0440" THEN Out(WSA_ERR_INVRFESETTING, <<>>, i)
        ELSE IF gain < d.min_if_gain \/ gain > d.max_if_gain
             THEN Out(WSA_ERR_INVIFGAIN, <<>>, i)
        ELSE IF snd < 0 THEN Out(snd, io1, i)
        ELSE Out(0, io1, Sent(i, "SWEEP:ENTRY:GAIN:IF", gain, snd))

\* the name that is written for a value of enum wsa_gain
GainName(gain) ==
    CASE gain = WSA_GAIN_HIGH -> "HIGH"
      [] gain = WSA_GAIN_MED -> "MED"
      [] gain = WSA_GAIN_LOW -> "LOW"
      [] gain = WSA_GAIN_VLOW -> "VLOW"
      [] OTHER -> "ERROR"

wsa_set_sweep_gain_rf(i, gain, snd) ==
    LET io1 == <<Wr("SWEEP:ENTRY:GAIN:RF", GainName(gain), snd)>>
    IN  IF gain > WSA_GAIN_VLOW \/ gain < WSA_GAIN_HIGH THEN Out(WSA_ERR_INVRFGAIN, <<>>, i)
        ELSE IF snd < 0 THEN Out(snd, io1, i)
        ELSE Out(0, io1, Sent(i, "SWEEP:ENTRY:GAIN:RF", GainName(gain), snd))

\* %hu: the number is written as an unsigned short
ToUint16(x) == x % 65536

\* the number is sent without a look at the range
wsa_set_samples_per_packet_unchecked(i, samples_per_packet, snd) ==
    LET io1 == <<Wr("TRACE:SPPACKET", ToUint16(samples_per_packet), snd)>>
    IN  IF snd < 0 THEN Out(snd, io1, i)
        ELSE Out(0, io1, Sent(i, "TRACE:SPPACKET", ToUint16(samples_per_packet), snd))

wsa_set_samples_per_packet(i, samples_per_packet, snd) ==
    LET io1 == <<Wr("TRACE:SPPACKET", ToUint16(samples_per_packet), snd)>>
    IN  IF samples_per_packet < WSA4000_MIN_SAMPLES_PER_PACKET
           \/ samples_per_packet > WSA4000_MAX_SAMPLES_PER_PACKET
        THEN Out(WSA_ERR_INVSAMPLESIZE, <<>>, i)
        ELSE IF snd < 0 THEN Out(snd, io1, i)
        ELSE Out(0, io1, Sent(i, "TRACE:SPPACKET", ToUint16(samples_per_packet), snd))

wsa_set_sweep_samples_per_packet(i, samples_per_packet, snd) ==
    LET io1 == <<Wr("SWEEP:ENTRY:SPPACKET", ToUint16(samples_per_packet), snd)>>
    IN  IF samples_per_packet < WSA4000_MIN_SAMPLES_PER_PACKET
           \/ samples_per_packet > WSA4000_MAX_SAMPLES_PER_PACKET
        THEN Out(WSA_ERR_INVSAMPLESIZE, <<>>, i)
        ELSE IF snd < 0 THEN Out(snd, io1, i)
        ELSE Out(0, io1, Sent(i, "SWEEP:ENTRY:SPPACKET", ToUint16(samples_per_packet), snd))

wsa_set_sweep_packets_per_block(i, packets_per_block, snd) ==
    LET io1 == <<Wr("SWEEP:ENTRY:PPBLOCK", packets_per_block, snd)>>
    IN  IF packets_per_block < WSA4000_MIN_PACKETS_PER_BLOCK
        THEN Out(WSA_ERR_INVNUMBER, <<>>, i)
        ELSE IF packets_per_block > WSA4000_MAX_PACKETS_PER_BLOCK
             THEN Out(WSA_ERR_INVCAPTURESIZE, <<>>, i)
        ELSE Out(snd, io1, Sent(i, "SWEEP:ENTRY:PPBLOCK", packets_per_block, snd))

wsa_set_sweep_decimation(i, d, rate, snd) ==
    LET io1 == <<Wr("SWEEP:ENTRY:DECIMATION", rate, snd)>>
    IN  IF (rate # 0 /\ rate < d.min_decimation) \/ rate > d.max_decimation
        THEN Out(WSA_ERR_INVDECIMATIONRATE, <<>>, i)
        ELSE IF snd < 0 THEN Out(snd, io1, i)
        ELSE Out(0, io1, Sent(i, "SWEEP:ENTRY:DECIMATION", rate, snd))

\* the stop frequency is verified before the start frequency
wsa_set_sweep_freq_stop_first(i, d, start_freq, stop_freq, snd) ==
    LET io1 == <<Wr("SWEEP:ENTRY:FREQ:CENT", <<start_freq, stop_freq>>, snd)>>
    IN  IF wsa_verify_freq(d, ToUint64(stop_freq)) = WSA_ERR_FREQOUTOFBOUND
        THEN Out(WSA_ERR_STOPOOB, <<>>, i)
        ELSE IF wsa_verify_freq(d, ToUint64(stop_freq)) < 0
             THEN Out(wsa_verify_freq(d, ToUint64(stop_freq)), <<>>, i)
        ELSE IF wsa_verify_freq(d, ToUint64(start_freq)) = WSA_ERR_FREQOUTOFBOUND
             THEN Out(WSA_ERR_STARTOOB, <<>>, i)
        ELSE IF wsa_verify_freq(d, ToUint64(start_freq)) < 0
             THEN Out(wsa_verify_freq(d, ToUint64(start_freq)), <<>>, i)
        ELSE IF stop_freq <= start_freq THEN Out(WSA_ERR_INVSTOPFREQ, <<>>, i)
        ELSE IF snd < 0 THEN Out(snd, io1, i)
        ELSE Out(0, io1, Sent(i, "SWEEP:ENTRY:FREQ:CENT", <<start_freq, stop_freq>>, snd))

wsa_set_sweep_freq(i, d, start_freq, stop_freq, snd) ==
    LET io1 == <<Wr("SWEEP:ENTRY:FREQ:CENT", <<start_freq, stop_freq>>, snd)>>
    IN  IF wsa_verify_freq(d, ToUint64(start_freq)) = WSA_ERR_FREQOUTOFBOUND
        THEN Out(WSA_ERR_STARTOOB, <<>>, i)
        ELSE IF wsa_verify_freq(d, ToUint64(start_freq)) < 0
             THEN Out(wsa_verify_freq(d, ToUint64(start_freq)), <<>>, i)
        ELSE IF wsa_verify_freq(d, ToUint64(stop_freq)) = WSA_ERR_FREQOUTOFBOUND
             THEN Out(WSA_ERR_STOPOOB, <<>>, i)
        ELSE IF wsa_verify_freq(d, ToUint64(stop_freq)) < 0
             THEN Out(wsa_verify_freq(d, ToUint64(stop_freq)), <<>>, i)
        ELSE IF stop_freq <= start_freq THEN Out(WSA_ERR_INVSTOPFREQ, <<>>, i)
        ELSE IF snd < 0 THEN Out(snd, io1, i)
        ELSE Out(0, io1, Sent(i, "SWEEP:ENTRY:FREQ:CENT", <<start_freq, stop_freq>>, snd))

wsa_set_sweep_dwell(i, seconds, microseconds, snd) ==
    LET io1 == <<Wr("SWEEP:ENTRY:DWELL", <<seconds, microseconds>>, snd)>>
    IN  IF seconds < 0 \/ microseconds < 0 THEN Out(WSA_ERR_INVALID_DWELL, <<>>, i)
        ELSE IF snd < 0 THEN Out(snd, io1, i)
        ELSE Out(0, io1, Sent(i, "SWEEP:ENTRY:DWELL", <<seconds, microseconds>>, snd))

\* %ld given an int32_t: where long is wider than int the upper half of what
\* is printed is not the argument's, so that a negative number may be printed
\* as a large positive one
PrintedLong(amplitude) == {amplitude, amplitude % (2 ^ IntBits)}

wsa_set_sweep_trigger_level(i, d, start_freq, stop_freq, amplitude, ld, snd) ==
    LET io1 == <<Wr("SWEEP:ENTRY:TRIGGER:LEVEL", <<start_freq, stop_freq, ld>>, snd)>>
    IN  IF wsa_verify_freq(d, ToUint64(start_freq)) = WSA_ERR_FREQOUTOFBOUND
        THEN Out(WSA_ERR_STARTOOB, <<>>, i)
        ELSE IF wsa_verify_freq(d, ToUint64(stop_freq)) = WSA_ERR_FREQOUTOFBOUND
             THEN Out(WSA_ERR_STOPOOB, <<>>, i)
        ELSE IF stop_freq <= start_freq THEN Out(WSA_ERR_INVSTOPFREQ, <<>>, i)
        ELSE IF snd < 0 THEN Out(snd, io1, i)
        ELSE Out(0, io1, Sent(i, "SWEEP:ENTRY:TRIGGER:LEVEL", <<start_freq, stop_freq, ld>>, snd))

wsa_set_sweep_trigger_type(i, enable, snd) ==
    LET type == IF enable = 0 THEN "NONE" ELSE "LEVEL"
        io1 == <<Wr("SWEEP:ENTRY:TRIGGER:TYPE", type, snd)>>
    IN  IF enable < 0 \/ enable > 1 THEN Out(WSA_ERR_INVTRIGGERMODE, <<>>, i)
        ELSE IF snd < 0 THEN Out(snd, io1, i)
        ELSE Out(0, io1, Sent(i, "SWEEP:ENTRY:TRIGGER:TYPE", type, snd))

(***************************************************************************)
(* wsa_get_freq / wsa_get_decimation / wsa_set_decimation /                *)
(* wsa_get_gain_if                                                         *)
(***************************************************************************)
\* what a getter hands back: Out and the variable behind its out-parameter
OutVal(r, events, i, v) == [ret |-> r, io |-> events, inst |-> i, val |-> v]

\* a frequency out of the tuning range is reported as that
wsa_get_freq_out_of_bound(i, d, k, cfreq) ==
    LET query == wsa_send_query(i, "FREQ:CENT?", k)
        io1 == QueryIO("FREQ:CENT?", query)
        temp == to_double(query.output)
    IN  IF query.status <= 0 THEN OutVal(query.status, io1, i, cfreq)
        ELSE IF temp.result < 0 THEN OutVal(WSA_ERR_RESPUNKNOWN, io1, i, cfreq)
        ELSE IF temp.val < d.min_tune_freq \/ temp.val > d.max_tune_freq
             THEN OutVal(WSA_ERR_FREQOUTOFBOUND, io1, i, cfreq)
             ELSE OutVal(0, io1, i, temp.val)

\* cfreq: the caller's variable as it was before the call
wsa_get_freq(i, d, k, cfreq) ==
    LET query == wsa_send_query(i, "FREQ:CENT?", k)
        io1 == QueryIO("FREQ:CENT?", query)
        temp == to_double(query.output)
    IN  IF query.status <= 0 THEN OutVal(query.status, io1, i, cfreq)
        ELSE IF temp.result < 0 THEN OutVal(WSA_ERR_RESPUNKNOWN, io1, i, cfreq)
        ELSE IF temp.val < d.min_tune_freq \/ temp.val > d.max_tune_freq
             THEN OutVal(WSA_ERR_RESPUNKNOWN, io1, i, cfreq)
             ELSE OutVal(0, io1, i, temp.val)

\* the reply is parsed whatever the status of the query is
wsa_get_decimation_unchecked(i, d, k, rate) ==
    LET query == wsa_send_query(i, ":SENSE:DEC?", k)
        io1 == QueryIO(":SENSE:DEC?", query)
        temp == to_int(query.output)
    IN  IF temp.result < 0 THEN OutVal(WSA_ERR_RESPUNKNOWN, io1, i, rate)
        ELSE IF (temp.val # 0 /\ temp.val < d.min_decimation) \/ temp.val > d.max_decimation
             THEN OutVal(WSA_ERR_RESPUNKNOWN, io1, i, rate)
             ELSE OutVal(0, io1, i, temp.val)

\* rate: the caller's variable as it was before the call
wsa_get_decimation(i, d, k, rate) ==
    LET query == wsa_send_query(i, ":SENSE:DEC?", k)
        io1 == QueryIO(":SENSE:DEC?", query)
        temp == to_int(query.output)
    IN  IF query.status <= 0 THEN OutVal(query.status, io1, i, rate)
        ELSE IF temp.result < 0 THEN OutVal(WSA_ERR_RESPUNKNOWN, io1, i, rate)
        ELSE IF (temp.val # 0 /\ temp.val < d.min_decimation) \/ temp.val > d.max_decimation
             THEN OutVal(WSA_ERR_RESPUNKNOWN, io1, i, rate)
             ELSE OutVal(0, io1, i, temp.val)

\* 0 is refused like any other rate below the minimum
wsa_set_decimation_no_zero(i, d, rate, snd) ==
    LET io1 == <<Wr("SENSE:DEC", rate, snd)>>
    IN  IF rate < d.min_decimation \/ rate > d.max_decimation
        THEN Out(WSA_ERR_INVDECIMATIONRATE, <<>>, i)
        ELSE IF snd < 0 THEN Out(snd, io1, i)
        ELSE Out(0, io1, Sent(i, "SENSE:DEC", rate, snd))

wsa_set_decimation(i, d, rate, snd) ==
    LET io1 == <<Wr("SENSE:DEC", rate, snd)>>
    IN  IF (rate # 0 /\ rate < d.min_decimation) \/ rate > d.max_decimation
        THEN Out(WSA_ERR_INVDECIMATIONRATE, <<>>, i)
        ELSE IF snd < 0 THEN Out(snd, io1, i)
        ELSE Out(0, io1, Sent(i, "SENSE:DEC", rate, snd))

\* gain: the caller's variable as it was before the call
wsa_get_gain_if(i, d, k, gain) ==
    LET query == wsa_send_query(i, "INPUT:GAIN:IF?", k)
        io1 == QueryIO("INPUT:GAIN:IF?", query)
        temp == to_int(query.output)
    IN  IF d.rfe_name = "RFE0440" THEN OutVal(WSA_ERR_INVRFESETTING, <<>>, i, gain)
        ELSE IF query.status <= 0 THEN OutVal(query.status, io1, i, gain)
        ELSE IF temp.result < 0 THEN OutVal(WSA_ERR_RESPUNKNOWN, io1, i, gain)
        ELSE IF temp.val < d.min_if_gain \/ temp.val > d.max_if_gain
             THEN OutVal(WSA_ERR_RESPUNKNOWN, io1, i, gain)
             ELSE OutVal(0, io1, i, temp.val)

(***************************************************************************)
(* wsa_sweep_entry_read                                                    *)
(***************************************************************************)
\* strstr(str, sub) != NULL
strstr(str, sub) ==
    \E a \in 1 .. Len(str) : \E b \in a .. Len(str) : SubSeq(str, a, b) = sub

\* "LOW" is looked for before "VLOW"
gain_rf_strtonum_low_first(str) ==
    IF strstr(str, "HIGH") THEN WSA_GAIN_HIGH
    ELSE IF strstr(str, "MED") THEN WSA_GAIN_MED
    ELSE IF strstr(str, "LOW") THEN WSA_GAIN_LOW
    ELSE IF strstr(str, "VLOW") THEN WSA_GAIN_VLOW
    ELSE 0

gain_rf_strtonum(str) ==
    IF strstr(str, "HIGH") THEN WSA_GAIN_HIGH
    ELSE IF strstr(str, "MED") THEN WSA_GAIN_MED
    ELSE IF strstr(str, "VLOW") THEN WSA_GAIN_VLOW
    ELSE IF strstr(str, "LOW") THEN WSA_GAIN_LOW
    ELSE 0

(***************************************************************************)
(* wsa_get_gain_rf / wsa_set_gain_rf                                       *)
(***************************************************************************)
\* gain: the caller's variable as it was before the call
wsa_get_gain_rf(i, k, gain) ==
    LET query == wsa_send_query(i, "INPUT:GAIN:RF?", k)
        io1 == QueryIO("INPUT:GAIN:RF?", query)
    IN  IF query.status <= 0 THEN OutVal(query.status, io1, i, gain)
        ELSE OutVal(0, io1, i, gain_rf_strtonum(query.output))

wsa_get_sweep_gain_rf(i, k, gain) ==
    LET query == wsa_send_query(i, "SWEEP:ENTRY:GAIN:RF?", k)
        io1 == QueryIO("SWEEP:ENTRY:GAIN:RF?", query)
    IN  IF query.status <= 0 THEN OutVal(query.status, io1, i, gain)
        ELSE OutVal(0, io1, i, gain_rf_strtonum(query.output))

\* enable: the caller's variable as it was before the call
wsa_get_sweep_trigger_type(i, k, enable) ==
    LET query == wsa_send_query(i, "SWEEP:ENTRY:TRIGGER:TYPE?", k)
        io1 == QueryIO("SWEEP:ENTRY:TRIGGER:TYPE?", query)
    IN  IF query.status <= 0 THEN OutVal(query.status, io1, i, enable)
        ELSE IF query.output = "LEVEL" THEN OutVal(0, io1, i, 1)
        ELSE IF query.output = "NONE" THEN OutVal(0, io1, i, 0)
        ELSE OutVal(0, io1, i, -1)

wsa_set_gain_rf(i, gain, snd) ==
    LET io1 == <<Wr("INPUT:GAIN:RF", GainName(gain), snd)>>
    IN  IF gain > WSA_GAIN_VLOW \/ gain < WSA_GAIN_HIGH THEN Out(WSA_ERR_INVRFGAIN, <<>>, i)
        ELSE IF snd < 0 THEN Out(snd, io1, i)
        ELSE Out(0, io1, Sent(i, "INPUT:GAIN:RF", GainName(gain), snd))

\* the tokens the calls strtok(str, ","), strtok(NULL, ","), ... hand out:
\* the stretches of str between commas that are not empty
RECURSIVE Tokens(_)
Tokens(str) ==
    LET n == Len(str)
        commas == { k \in 1 .. n : SubSeq(str, k, k) = "," }
        p == IF commas = {} THEN n + 1
             ELSE CHOOSE k \in commas : \A j \in commas : k <= j
    IN  IF n = 0 THEN << >>
        ELSE IF p = 1 THEN Tokens(SubSeq(str, 2, n))
        ELSE << SubSeq(str, 1, p - 1) >> \o Tokens(SubSeq(str, p + 1, n))

\* the k-th token; the replies of this model do not run out of tokens before
\* the parser stops asking for them
Token(tok, k) == IF k <= Len(tok) THEN tok[k] ELSE ""

(***************************************************************************)
(* wsa_get_freq_shift and the getters of the sweep template                *)
(***************************************************************************)
\* (float) x for a whole number x: the nearest number with 24 significant
\* bits, a tie going to the even one
ToFloat(x) ==
    LET a == IF x < 0 THEN 0 - x ELSE x
        e == CHOOSE p \in {2 ^ n : n \in 0 .. 8} :
                 a < (2 ^ 24) * p /\ (p = 1 \/ a >= (2 ^ 23) * p)
        q == a \div e
        r == a % e
        up == 2 * r > e \/ (2 * r = e /\ q % 2 = 1)
        m == (IF up THEN q + 1 ELSE q) * e
    IN  IF x < 0 THEN 0 - m ELSE m

\* fshift: the caller's variable as it was before the call
wsa_get_freq_shift(i, d, k, fshift) ==
    LET query == wsa_send_query(i, "FREQ:SHIFT?", k)
        io1 == QueryIO("FREQ:SHIFT?", query)
        temp == to_double(query.output)
        range == d.inst_bw
    IN  IF query.status <= 0 THEN OutVal(query.status, io1, i, fshift)
        ELSE IF temp.result < 0 THEN OutVal(WSA_ERR_RESPUNKNOWN, io1, i, fshift)
        ELSE IF temp.val < 0 - range \/ temp.val > range
             THEN OutVal(WSA_ERR_RESPUNKNOWN, io1, i, fshift)
             ELSE OutVal(0, io1, i, ToFloat(temp.val))

wsa_get_sweep_freq_shift(i, k, fshift) ==
    LET query == wsa_send_query(i, "SWEEP:ENTRY:FREQ:SHIFT?", k)
        io1 == QueryIO("SWEEP:ENTRY:FREQ:SHIFT?", query)
        temp == to_double(query.output)
    IN  IF query.status <= 0 THEN OutVal(query.status, io1, i, fshift)
        ELSE IF temp.result < 0 THEN OutVal(WSA_ERR_RESPUNKNOWN, io1, i, fshift)
        ELSE OutVal(0, io1, i, ToFloat(temp.val))

\* freqs: the caller's <<start_freq, stop_freq>> as they were before the call
wsa_get_sweep_freq(i, k, freqs) ==
    LET query == wsa_send_query(i, "SWEEP:ENTRY:FREQ:CENTER?", k)
        io1 == QueryIO("SWEEP:ENTRY:FREQ:CENTER?", query)
        tok == Tokens(query.output)
        temp1 == to_double(Token(tok, 1))
        temp2 == to_double(Token(tok, 2))
    IN  IF query.status <= 0 THEN OutVal(query.status, io1, i, freqs)
        ELSE IF temp1.result < 0 THEN OutVal(WSA_ERR_RESPUNKNOWN, io1, i, freqs)
        ELSE IF temp2.result < 0
             THEN OutVal(WSA_ERR_RESPUNKNOWN, io1, i, <<temp1.val, freqs[2]>>)
             ELSE OutVal(0, io1, i, <<temp1.val, temp2.val>>)

wsa_get_sweep_decimation(i, d, k, rate) ==
    LET query == wsa_send_query(i, "SWEEP:ENTRY:DECIMATION?", k)
        io1 == QueryIO("SWEEP:ENTRY:DECIMATION?", query)
        temp == to_int(query.output)
    IN  IF query.status <= 0 THEN OutVal(query.status, io1, i, rate)
        ELSE IF temp.result < 0 THEN OutVal(WSA_ERR_RESPUNKNOWN, io1, i, rate)
        ELSE IF (temp.val # 0 /\ temp.val < d.min_decimation) \/ temp.val > d.max_decimation
             THEN OutVal(WSA_ERR_RESPUNKNOWN, io1, i, rate)
             ELSE OutVal(0, io1, i, temp.val)

\* noise on the command channel: field g of the reply arrives as "?"
Corrupt(query, g) ==
    LET tok == Tokens(query.output)
        out == Join([k \in 1 .. Len(tok) |-> IF k = g THEN "?" ELSE tok[k]])
    IN  IF query.status <= 0 \/ g \notin 1 .. Len(tok) THEN query
        ELSE [status |-> Len(out), output |-> out]

\* the members of struct wsa_sweep_list in the order in which the fields of
\* the reply are assigned to them, up to the trigger type and after it
ReadFields ==
    << "start_freq", "stop_freq", "fstep", "fshift", "decimation_rate", "ant_port",
       "gain_rf", "gain_if", "samples_per_packet", "packets_per_block",
       "dwell_seconds", "dwell_microseconds" >>
TriggerFields == << "trigger_start_freq", "trigger_stop_freq", "trigger_amplitude" >>

\* tokens k, k + 1, ... are converted and assigned to the members named, one
\* after the other; the first token that is not a number ends the call with
\* WSA_ERR_RESPUNKNOWN, the members assigned before it keep their new values
RECURSIVE AssignFields(_, _, _, _)
AssignFields(sweep_list, names, tok, k) ==
    IF Len(names) = 0 THEN [result |-> 0, sweep_list |-> sweep_list]
    ELSE IF Head(names) = "gain_rf"
         THEN AssignFields([sweep_list EXCEPT !.gain_rf = gain_rf_strtonum(Token(tok, k))],
                           Tail(names), tok, k + 1)
    ELSE IF to_double(Token(tok, k)).result < 0
         THEN [result |-> WSA_ERR_RESPUNKNOWN, sweep_list |-> sweep_list]
    ELSE AssignFields([sweep_list EXCEPT ![Head(names)] = to_double(Token(tok, k)).val],
                      Tail(names), tok, k + 1)

\* what wsa_sweep_entry_read hands back: Out and the caller's struct
OutList(r, events, i, sl) == [ret |-> r, io |-> events, inst |-> i, sweep_list |-> sl]

\* the trigger levels are read whatever the trigger type is
wsa_sweep_entry_read_levels(i, id, k, g, sweep_list) ==
    LET query == Corrupt(wsa_send_query(i, ReadLine(id), k), g)
        io1 == QueryIO(ReadLine(id), query)
        tok == Tokens(query.output)
        p1 == AssignFields(sweep_list, ReadFields, tok, 1)
        p2 == AssignFields([p1.sweep_list EXCEPT !.trigger_enable = 1], TriggerFields, tok,
                           Len(ReadFields) + 2)
    IN  IF id < 0 THEN OutList(WSA_ERR_INVNUMBER, << >>, i, sweep_list)
        ELSE IF query.status <= 0 THEN OutList(query.status, io1, i, sweep_list)
        ELSE IF p1.result < 0 THEN OutList(p1.result, io1, i, p1.sweep_list)
        ELSE OutList(p2.result, io1, i, p2.sweep_list)

\* the fifth and the ninth field go to each other's member
wsa_sweep_entry_read_swapped(i, id, k, g, sweep_list) ==
    LET query == Corrupt(wsa_send_query(i, ReadLine(id), k), g)
        io1 == QueryIO(ReadLine(id), query)
        tok == Tokens(query.output)
        swapped == [ReadFields EXCEPT ![5] = ReadFields[9], ![9] = ReadFields[5]]
        p1 == AssignFields(sweep_list, swapped, tok, 1)
        p2 == AssignFields([p1.sweep_list EXCEPT !.trigger_enable = 1], TriggerFields, tok,
                           Len(ReadFields) + 2)
        type == Token(tok, Len(ReadFields) + 1)
    IN  IF id < 0 THEN OutList(WSA_ERR_INVNUMBER, << >>, i, sweep_list)
        ELSE IF query.status <= 0 THEN OutList(query.status, io1, i, sweep_list)
        ELSE IF p1.result < 0 THEN OutList(p1.result, io1, i, p1.sweep_list)
        ELSE IF strstr(type, "LEVEL") THEN OutList(p2.result, io1, i, p2.sweep_list)
        ELSE IF strstr(type, "NONE")
             THEN OutList(0, io1, i, [p1.sweep_list EXCEPT !.trigger_enable = 0])
        ELSE OutList(0, io1, i, p1.sweep_list)

\* the caller's struct is written only when the whole reply has been parsed
wsa_sweep_entry_read_atomic(i, id, k, g, sweep_list) ==
    LET query == Corrupt(wsa_send_query(i, ReadLine(id), k), g)
        io1 == QueryIO(ReadLine(id), query)
        tok == Tokens(query.output)
        p1 == AssignFields(sweep_list, ReadFields, tok, 1)
        p2 == AssignFields([p1.sweep_list EXCEPT !.trigger_enable = 1], TriggerFields, tok,
                           Len(ReadFields) + 2)
        type == Token(tok, Len(ReadFields) + 1)
    IN  IF id < 0 THEN OutList(WSA_ERR_INVNUMBER, << >>, i, sweep_list)
        ELSE IF query.status <= 0 THEN OutList(query.status, io1, i, sweep_list)
        ELSE IF p1.result < 0 THEN OutList(p1.result, io1, i, sweep_list)
        ELSE IF strstr(type, "LEVEL")
             THEN OutList(p2.result, io1, i,
                          IF p2.result < 0 THEN sweep_list ELSE p2.sweep_list)
        ELSE IF strstr(type, "NONE")
             THEN OutList(0, io1, i, [p1.sweep_list EXCEPT !.trigger_enable = 0])
        ELSE OutList(0, io1, i, p1.sweep_list)

\* k, g: how the query ends and which field of the reply, if any, is hit by
\* noise; sweep_list: the caller's struct as it was before the call
wsa_sweep_entry_read(i, id, k, g, sweep_list) ==
    LET query == Corrupt(wsa_send_query(i, ReadLine(id), k), g)
        io1 == QueryIO(ReadLine(id), query)
        tok == Tokens(query.output)
        p1 == AssignFields(sweep_list, ReadFields, tok, 1)
        p2 == AssignFields([p1.sweep_list EXCEPT !.trigger_enable = 1], TriggerFields, tok,
                           Len(ReadFields) + 2)
        type == Token(tok, Len(ReadFields) + 1)
    IN  IF id < 0 THEN OutList(WSA_ERR_INVNUMBER, << >>, i, sweep_list)
        ELSE IF query.status <= 0 THEN OutList(query.status, io1, i, sweep_list)
        ELSE IF p1.result < 0 THEN OutList(p1.result, io1, i, p1.sweep_list)
        ELSE IF strstr(type, "LEVEL") THEN OutList(p2.result, io1, i, p2.sweep_list)
        ELSE IF strstr(type, "NONE")
             THEN OutList(0, io1, i, [p1.sweep_list EXCEPT !.trigger_enable = 0])
        ELSE OutList(0, io1, i, p1.sweep_list)

(***************************************************************************)
(* wsa_read_vrt_packet                                                     *)
(***************************************************************************)
\* the stream identifier in the header of the packet on the data channel
StreamIds == {"IF_DATA", "RECEIVER", "DIGITIZER", "OTHER"}

\* wsa_read_vrt_packet_raw: a socket error or timeout while receiving, the
\* not-an-IQ-frame error for a stream identifier that is not known, else 0
wsa_read_vrt_packet_raw(stream_id, fail) ==
    IF fail THEN WSA_ERR_SOCKETERROR
    ELSE IF stream_id \notin {"IF_DATA", "RECEIVER", "DIGITIZER"} THEN WSA_ERR_NOTIQFRAME
    ELSE 0

\* the 16-bit words a payload is made of, as they are on the wire
SampleWords == {1, 65534}
\* the payloads of n sample pairs: I1 Q1 I2 Q2 ...
Payloads(n) == [1 .. 2 * n -> SampleWords]

\* data_buffer after the raw read: malloc'ed for samples_per_packet pairs
\* and not initialised (every word holds ud), then filled with the payload
DataBuffer(payload, samples_per_packet, ud) ==
    [k \in 1 .. 2 * samples_per_packet |-> IF k <= Len(payload) THEN payload[k] ELSE ud]

\* a 16-bit word read as a signed two's-complement integer
ToInt16(w) == IF w >= 32768 THEN w - 65536 ELSE w

\* wsa_decode_frame(data_buf, i_buf, q_buf, sample_size): the pairs of the
\* payload are split over the two buffers; the number of pairs is returned
wsa_decode_frame(data_buf, i_buf, q_buf, sample_size) ==
    [ result |-> sample_size,
      i_buf |-> [k \in 1 .. Len(i_buf) |->
                    IF k <= sample_size THEN ToInt16(data_buf[2 * k - 1]) ELSE i_buf[k]],
      q_buf |-> [k \in 1 .. Len(q_buf) |->
                    IF k <= sample_size THEN ToInt16(data_buf[2 * k]) ELSE q_buf[k]] ]

\* what wsa_read_vrt_packet hands back: Out and the two buffers of the caller
OutIQ(r, events, i, ib, qb) ==
    [ret |-> r, io |-> events, inst |-> i, i_buffer |-> ib, q_buffer |-> qb]

\* the number of times a caller may read again after a failed read
MAX_RETRIES_READ_FRAME == 5

\* a raw read that fails is made again, MAX_RETRIES_READ_FRAME times in all
wsa_read_vrt_packet_retries(i, pkt, fail, ud, samples_per_packet, i_buffer, q_buffer, ks, ub, snd) ==
    LET result == wsa_read_vrt_packet_raw(pkt.stream_id, fail)
        io1 == <<Rv(pkt.stream_id, result)>>
        ion == [k \in 1 .. MAX_RETRIES_READ_FRAME |-> Rv(pkt.stream_id, result)]
        ab == wsa_system_abort_capture(i, ks, ub, snd)
        dec == wsa_decode_frame(DataBuffer(pkt.payload, samples_per_packet, ud),
                                i_buffer, q_buffer, samples_per_packet)
    IN  IF result < 0
        THEN IF result = WSA_ERR_NOTIQFRAME
             THEN OutIQ(result, ion \o ab.io, ab.inst, i_buffer, q_buffer)
             ELSE OutIQ(result, ion, i, i_buffer, q_buffer)
        ELSE IF pkt.stream_id = "IF_DATA" THEN OutIQ(0, io1, i, dec.i_buf, dec.q_buf)
        ELSE OutIQ(0, io1, i, i_buffer, q_buffer)

\* the error is returned without the abort
wsa_read_vrt_packet_no_abort(i, pkt, fail, ud, samples_per_packet, i_buffer, q_buffer, ks, ub, snd) ==
    LET result == wsa_read_vrt_packet_raw(pkt.stream_id, fail)
        io1 == <<Rv(pkt.stream_id, result)>>
        dec == wsa_decode_frame(DataBuffer(pkt.payload, samples_per_packet, ud),
                                i_buffer, q_buffer, samples_per_packet)
    IN  IF result < 0 THEN OutIQ(result, io1, i, i_buffer, q_buffer)
        ELSE IF pkt.stream_id = "IF_DATA" THEN OutIQ(0, io1, i, dec.i_buf, dec.q_buf)
        ELSE OutIQ(0, io1, i, i_buffer, q_buffer)

\* the abort follows every error of the raw read
wsa_read_vrt_packet_abort_all(i, pkt, fail, ud, samples_per_packet, i_buffer, q_buffer, ks, ub, snd) ==
    LET result == wsa_read_vrt_packet_raw(pkt.stream_id, fail)
        io1 == <<Rv(pkt.stream_id, result)>>
        ab == wsa_system_abort_capture(i, ks, ub, snd)
        dec == wsa_decode_frame(DataBuffer(pkt.payload, samples_per_packet, ud),
                                i_buffer, q_buffer, samples_per_packet)
    IN  IF result < 0 THEN OutIQ(result, io1 \o ab.io, ab.inst, i_buffer, q_buffer)
        ELSE IF pkt.stream_id = "IF_DATA" THEN OutIQ(0, io1, i, dec.i_buf, dec.q_buf)
        ELSE OutIQ(0, io1, i, i_buffer, q_buffer)

\* the two buffers are handed to the decoder in the other order
wsa_read_vrt_packet_swapped(i, pkt, fail, ud, samples_per_packet, i_buffer, q_buffer, ks, ub, snd) ==
    LET result == wsa_read_vrt_packet_raw(pkt.stream_id, fail)
        io1 == <<Rv(pkt.stream_id, result)>>
        ab == wsa_system_abort_capture(i, ks, ub, snd)
        dec == wsa_decode_frame(DataBuffer(pkt.payload, samples_per_packet, ud),
                                q_buffer, i_buffer, samples_per_packet)
    IN  IF result < 0
        THEN IF result = WSA_ERR_NOTIQFRAME
             THEN OutIQ(result, io1 \o ab.io, ab.inst, i_buffer, q_buffer)
             ELSE OutIQ(result, io1, i, i_buffer, q_buffer)
        ELSE IF pkt.stream_id = "IF_DATA" THEN OutIQ(0, io1, i, dec.q_buf, dec.i_buf)
        ELSE OutIQ(0, io1, i, i_buffer, q_buffer)

\* the decoder runs on every frame that was read
wsa_read_vrt_packet_decode_all(i, pkt, fail, ud, samples_per_packet, i_buffer, q_buffer, ks, ub, snd) ==
    LET result == wsa_read_vrt_packet_raw(pkt.stream_id, fail)
        io1 == <<Rv(pkt.stream_id, result)>>
        ab == wsa_system_abort_capture(i, ks, ub, snd)
        dec == wsa_decode_frame(DataBuffer(pkt.payload, samples_per_packet, ud),
                                i_buffer, q_buffer, samples_per_packet)
    IN  IF result < 0
        THEN IF result = WSA_ERR_NOTIQFRAME
             THEN OutIQ(result, io1 \o ab.io, ab.inst, i_buffer, q_buffer)
             ELSE OutIQ(result, io1, i, i_buffer, q_buffer)
        ELSE OutIQ(0, io1, i, dec.i_buf, dec.q_buf)

\* what wsa_decode_frame returned is handed to the caller
wsa_read_vrt_packet_decode_result(i, pkt, fail, ud, samples_per_packet, i_buffer, q_buffer, ks, ub, snd) ==
    LET result == wsa_read_vrt_packet_raw(pkt.stream_id, fail)
        io1 == <<Rv(pkt.stream_id, result)>>
        ab == wsa_system_abort_capture(i, ks, ub, snd)
        dec == wsa_decode_frame(DataBuffer(pkt.payload, samples_per_packet, ud),
                                i_buffer, q_buffer, samples_per_packet)
    IN  IF result < 0
        THEN IF result = WSA_ERR_NOTIQFRAME
             THEN OutIQ(result, io1 \o ab.io, ab.inst, i_buffer, q_buffer)
             ELSE OutIQ(result, io1, i, i_buffer, q_buffer)
        ELSE IF pkt.stream_id = "IF_DATA"
             THEN OutIQ(ToInt16(dec.result), io1, i, dec.i_buf, dec.q_buf)
        ELSE OutIQ(0, io1, i, i_buffer, q_buffer)

\* pkt, fail: the packet on the wire (stream_id, payload) and whether receiving
\* it fails; ud: what the fresh data_buffer holds; i_buffer, q_buffer: the
\* caller's buffers as they were; ks, ub, snd: wsa_system_abort_capture, when
\* it is called.  What wsa_decode_frame returns is not looked at.
wsa_read_vrt_packet(i, pkt, fail, ud, samples_per_packet, i_buffer, q_buffer, ks, ub, snd) ==
    LET result == wsa_read_vrt_packet_raw(pkt.stream_id, fail)
        io1 == <<Rv(pkt.stream_id, result)>>
        ab == wsa_system_abort_capture(i, ks, ub, snd)
        dec == wsa_decode_frame(DataBuffer(pkt.payload, samples_per_packet, ud),
                                i_buffer, q_buffer, samples_per_packet)
    IN  IF result < 0
        THEN IF result = WSA_ERR_NOTIQFRAME
             THEN OutIQ(result, io1 \o ab.io, ab.inst, i_buffer, q_buffer)
             ELSE OutIQ(result, io1, i, i_buffer, q_buffer)
        ELSE IF pkt.stream_id = "IF_DATA" THEN OutIQ(0, io1, i, dec.i_buf, dec.q_buf)
        ELSE OutIQ(0, io1, i, i_buffer, q_buffer)

(***************************************************************************)
(* Actions                                                                 *)
(***************************************************************************)
\* no call is in progress
Idle == [pc |-> "idle", clock |-> 0, end_time |-> 0, result |-> 0]

\* the caller's memory before the first call: two buffers of MaxSamples
\* samples each, the integer variable a getter is given to store its value
\* in, the buffer for the sweep status and the struct wsa_sweep_list
InitMem ==
    [ i_buffer |-> [k \in 1 .. MaxSamples |-> 1],
      q_buffer |-> [k \in 1 .. MaxSamples |-> 1],
      val |-> -1,
      status |-> "",
      sweep_list |->
        [ start_freq |-> -1, stop_freq |-> -1, fstep |-> -1, fshift |-> -1,
          decimation_rate |-> -1, ant_port |-> -1, gain_rf |-> -1, gain_if |-> -1,
          samples_per_packet |-> -1, packets_per_block |-> -1, dwell_seconds |-> -1,
          dwell_microseconds |-> -1, trigger_enable |-> -1, trigger_start_freq |-> -1,
          trigger_stop_freq |-> -1, trigger_amplitude |-> -1 ] ]

Ids == -1 .. (MaxList + 2)
Ports == 0 .. (WSA_RFE0560_MAX_ANT_PORT + 1)
FreqInputs(d) ==
    { -(2 ^ (IntBits - 1)), -1, 0, d.min_tune_freq - 1, d.min_tune_freq,
      d.min_tune_freq + d.freq_resolution + 1,
      d.max_tune_freq, d.max_tune_freq + 1, 2 ^ (IntBits - 1) - 1 }

\* a call that leaves the caller's memory as m
CallM(name, a, out, m) ==
    /\ op' = name
    /\ arg' = a
    /\ ret' = out.ret
    /\ io' = out.io
    /\ inst' = out.inst
    /\ pre' = inst
    /\ mem' = m
    /\ UNCHANGED <<descr, loc>>

\* a call without out-parameters
Call(name, a, out) == CallM(name, a, out, mem)

SweepStart ==
    \E ks \in ReplyKinds, ub \in UninitStatus, kz \in ReplyKinds, snd \in SendResults :
        Call("wsa_sweep_start", 0, wsa_sweep_start(inst, ks, ub, kz, snd))

SweepResume ==
    \E ks \in ReplyKinds, ub \in UninitStatus, kz \in ReplyKinds, snd \in SendResults :
        Call("wsa_sweep_resume", 0, wsa_sweep_resume(inst, ks, ub, kz, snd))

SweepStop ==
    \E snd1 \in SendResults, lag \in BOOLEAN, ks \in ReplyKinds, ub \in UninitStatus,
       snd2 \in SendResults, n \in 1 .. MaxDrain :
        Call("wsa_sweep_stop", 0, wsa_sweep_stop(inst, snd1, lag, ks, ub, snd2, n))

FlushData ==
    \E ks \in ReplyKinds, ub \in UninitStatus, snd \in SendResults :
        Call("wsa_flush_data", 0, wsa_flush_data(inst, ks, ub, snd))

SystemAbortCapture ==
    \E ks \in ReplyKinds, ub \in UninitStatus, snd \in SendResults :
        Call("wsa_system_abort_capture", 0, wsa_system_abort_capture(inst, ks, ub, snd))

SweepEntryNew ==
    \E snd \in SendResults :
        Call("wsa_sweep_entry_new", 0, wsa_sweep_entry_new(inst, snd))

SetSweepAntenna ==
    \E port_num \in Ports, snd \in SendResults :
        Call("wsa_set_sweep_antenna", port_num,
             wsa_set_sweep_antenna(inst, descr, port_num, snd))

SweepEntrySave ==
    /\ Len(inst.sweep_list) < MaxList
    /\ \E id \in Ids, kz \in ReplyKinds, snd \in SendResults :
        Call("wsa_sweep_entry_save", id, wsa_sweep_entry_save(inst, id, kz, snd))

SweepEntryDelete ==
    \E id \in Ids, kz \in ReplyKinds, us \in UninitSize, snd \in SendResults :
        Call("wsa_sweep_entry_delete", id, wsa_sweep_entry_delete(inst, id, kz, us, snd))

SweepEntryDeleteAll ==
    \E snd \in SendResults :
        Call("wsa_sweep_entry_delete_all", 0, wsa_sweep_entry_delete_all(inst, snd))

SweepEntryCopy ==
    \E id \in Ids, kz \in ReplyKinds, snd \in SendResults :
        Call("wsa_sweep_entry_copy", id, wsa_sweep_entry_copy(inst, id, kz, snd))

SetFreq ==
    \E cfreq \in FreqInputs(descr), snd \in SendResults :
        Call("wsa_set_freq", cfreq, wsa_set_freq(inst, descr, cfreq, snd))

\* the packet on the wire: a payload of np pairs for an IQ data frame, with
\* np <= samples_per_packet (a longer one does not fit data_buffer); the
\* outcomes of wsa_system_abort_capture are drawn when it is called
ReadVrtPacket ==
    \E stream_id \in StreamIds, fail \in BOOLEAN, samples_per_packet \in 1 .. MaxSamples :
    \E np \in (IF stream_id = "IF_DATA" /\ ~fail
                THEN {samples_per_packet - 1, samples_per_packet} ELSE {0}) :
    \E payload \in Payloads(np),
       ud \in (IF np < samples_per_packet /\ stream_id = "IF_DATA" /\ ~fail
               THEN SampleWords ELSE {1}) :
    \E ks \in (IF stream_id = "OTHER" /\ ~fail THEN ReplyKinds ELSE {"answer"}),
       ub \in (IF stream_id = "OTHER" /\ ~fail THEN UninitStatus ELSE {"?"}),
       snd \in (IF stream_id = "OTHER" /\ ~fail THEN SendResults ELSE {0}) :
        LET pkt == [stream_id |-> stream_id, payload |-> payload]
            out == wsa_read_vrt_packet(inst, pkt, fail, ud, samples_per_packet,
                                       mem.i_buffer, mem.q_buffer, ks, ub, snd)
        IN  CallM("wsa_read_vrt_packet",
                  [samples_per_packet |-> samples_per_packet, payload |-> payload], out,
                  [mem EXCEPT !.i_buffer = out.i_buffer, !.q_buffer = out.q_buffer])

DecInputs(d) ==
    { -1, 0, d.min_decimation - 1, d.min_decimation, d.max_decimation,
      d.max_decimation + 1 }

SetDecimation ==
    \E rate \in DecInputs(descr), snd \in SendResults :
        Call("wsa_set_decimation", rate, wsa_set_decimation(inst, descr, rate, snd))

GainIfInputs(d) == {d.min_if_gain - 1, d.min_if_gain, d.max_if_gain, d.max_if_gain + 1}
GainRfInputs == (WSA_GAIN_HIGH - 1) .. (WSA_GAIN_VLOW + 1)
SamplesInputs ==
    { WSA4000_MIN_SAMPLES_PER_PACKET - 1, WSA4000_MIN_SAMPLES_PER_PACKET,
      WSA4000_MAX_SAMPLES_PER_PACKET, WSA4000_MAX_SAMPLES_PER_PACKET + 1 }
PacketsInputs ==
    { WSA4000_MIN_PACKETS_PER_BLOCK - 1, WSA4000_MIN_PACKETS_PER_BLOCK,
      WSA4000_MAX_PACKETS_PER_BLOCK, WSA4000_MAX_PACKETS_PER_BLOCK + 1 }
DwellInputs == {-1, 0, 1}
AmplitudeInputs == {-5, 0}
EnableInputs == {-1, 0, 1, 2}

SetSweepGainIf ==
    \E gain \in GainIfInputs(descr), snd \in SendResults :
        Call("wsa_set_sweep_gain_if", gain, wsa_set_sweep_gain_if(inst, descr, gain, snd))

SetSweepGainRf ==
    \E gain \in GainRfInputs, snd \in SendResults :
        Call("wsa_set_sweep_gain_rf", gain, wsa_set_sweep_gain_rf(inst, gain, snd))

\* also a number that %hu prints like a number of the range
SetSamplesPerPacket ==
    \E samples_per_packet \in SamplesInputs \cup {-1, 65536 + WSA4000_MIN_SAMPLES_PER_PACKET},
       snd \in SendResults :
        Call("wsa_set_samples_per_packet", samples_per_packet,
             wsa_set_samples_per_packet(inst, samples_per_packet, snd))

SetSweepSamplesPerPacket ==
    \E samples_per_packet \in SamplesInputs, snd \in SendResults :
        Call("wsa_set_sweep_samples_per_packet", samples_per_packet,
             wsa_set_sweep_samples_per_packet(inst, samples_per_packet, snd))

SetSweepPacketsPerBlock ==
    \E packets_per_block \in PacketsInputs, snd \in SendResults :
        Call("wsa_set_sweep_packets_per_block", packets_per_block,
             wsa_set_sweep_packets_per_block(inst, packets_per_block, snd))

SetSweepDecimation ==
    \E rate \in DecInputs(descr), snd \in SendResults :
        Call("wsa_set_sweep_decimation", rate, wsa_set_sweep_decimation(inst, descr, rate, snd))

SetSweepFreq ==
    \E start_freq \in FreqInputs(descr), stop_freq \in FreqInputs(descr), snd \in SendResults :
        Call("wsa_set_sweep_freq", <<start_freq, stop_freq>>,
             wsa_set_sweep_freq(inst, descr, start_freq, stop_freq, snd))

SetSweepDwell ==
    \E seconds \in DwellInputs, microseconds \in DwellInputs, snd \in SendResults :
        Call("wsa_set_sweep_dwell", <<seconds, microseconds>>,
             wsa_set_sweep_dwell(inst, seconds, microseconds, snd))

SetSweepTriggerLevel ==
    \E start_freq \in FreqInputs(descr), stop_freq \in FreqInputs(descr),
       amplitude \in AmplitudeInputs, snd \in SendResults :
        \E ld \in PrintedLong(amplitude) :
            Call("wsa_set_sweep_trigger_level", <<start_freq, stop_freq, amplitude>>,
                 wsa_set_sweep_trigger_level(inst, descr, start_freq, stop_freq, amplitude,
                                             ld, snd))

SetSweepTriggerType ==
    \E enable \in EnableInputs, snd \in SendResults :
        Call("wsa_set_sweep_trigger_type", enable, wsa_set_sweep_trigger_type(inst, enable, snd))

\* A getter is handed a variable that the caller has just declared: the
\* caller's memory is InitMem when the call begins.
GetSweepStatus ==
    \E k \in ReplyKinds :
        LET query == wsa_send_query(inst, "SWEEP:LIST:STATUS?", k)
            st == wsa_get_sweep_status(query, InitMem.status)
        IN  CallM("wsa_get_sweep_status", 0,
                  Out(st.result, QueryIO("SWEEP:LIST:STATUS?", query), inst),
                  [InitMem EXCEPT !.status = st.status])

GetSweepEntrySize ==
    \E k \in ReplyKinds :
        LET query == wsa_send_query(inst, "SWEEP:ENTRY:COUNT?", k)
            sz == wsa_get_sweep_entry_size(query, InitMem.val)
        IN  CallM("wsa_get_sweep_entry_size", 0,
                  Out(sz.result, QueryIO("SWEEP:ENTRY:COUNT?", query), inst),
                  [InitMem EXCEPT !.val = sz.size])

GetFreq ==
    \E k \in NumReplyKinds :
        LET out == wsa_get_freq(inst, descr, k, InitMem.val)
        IN  CallM("wsa_get_freq", 0, out, [InitMem EXCEPT !.val = out.val])

GetDecimation ==
    \E k \in NumReplyKinds :
        LET out == wsa_get_decimation(inst, descr, k, InitMem.val)
        IN  CallM("wsa_get_decimation", 0, out, [InitMem EXCEPT !.val = out.val])

GetAbsMaxAmp ==
    \E gain \in GainRfInputs :
        LET out == wsa_get_abs_max_amp(descr, gain, InitMem.val)
        IN  /\ op' = "wsa_get_abs_max_amp"
            /\ arg' = gain
            /\ ret' = out.ret
            /\ io' = <<>>
            /\ inst' = inst
            /\ pre' = inst
            /\ mem' = [InitMem EXCEPT !.val = out.val]
            /\ descr' = out.descr
            /\ loc' = loc

IpAddrs == {"192.168.215.107", "wsa4000.local"}

CheckAddr ==
    \E ip_addr \in IpAddrs, r1 \in VerifyResults, r2 \in VerifyResults :
        LET out == wsa_check_addr(r1, r2)
        IN  /\ op' = "wsa_check_addr"
            /\ arg' = ip_addr
            /\ ret' = out.ret
            /\ io' = out.io
            /\ UNCHANGED <<inst, descr, mem, loc>>
            /\ pre' = inst

IntfMethods == {"USB", "TCPIP::192.168.215.107::HISLIP", "GPIB"}

Open ==
    \E intf_method \in IntfMethods, conn \in ConnectResults :
        LET out == wsa_open(descr, intf_method, conn)
        IN  /\ op' = "wsa_open"
            /\ arg' = intf_method
            /\ ret' = out.ret
            /\ io' = out.io
            /\ inst' = inst
            /\ pre' = inst
            /\ mem' = mem
            /\ descr' = out.descr
            /\ loc' = loc

GetGainRf ==
    \E k \in ReplyKinds :
        LET out == wsa_get_gain_rf(inst, k, InitMem.val)
        IN  CallM("wsa_get_gain_rf", 0, out, [InitMem EXCEPT !.val = out.val])

SetGainRf ==
    \E gain \in GainRfInputs, snd \in SendResults :
        Call("wsa_set_gain_rf", gain, wsa_set_gain_rf(inst, gain, snd))

GetFreqShift ==
    \E k \in NumReplyKinds :
        LET out == wsa_get_freq_shift(inst, descr, k, InitMem.val)
        IN  CallM("wsa_get_freq_shift", 0, out, [InitMem EXCEPT !.val = out.val])

GetSweepFreqShift ==
    \E k \in NumReplyKinds :
        LET out == wsa_get_sweep_freq_shift(inst, k, InitMem.val)
        IN  CallM("wsa_get_sweep_freq_shift", 0, out, [InitMem EXCEPT !.val = out.val])

GetSweepFreq ==
    \E k \in NumReplyKinds :
        LET out == wsa_get_sweep_freq(inst, k, <<InitMem.val, InitMem.val>>)
        IN  CallM("wsa_get_sweep_freq", 0, out, [InitMem EXCEPT !.val = out.val])

GetSweepDecimation ==
    \E k \in NumReplyKinds :
        LET out == wsa_get_sweep_decimation(inst, descr, k, InitMem.val)
        IN  CallM("wsa_get_sweep_decimation", 0, out, [InitMem EXCEPT !.val = out.val])

GetSweepGainRf ==
    \E k \in ReplyKinds :
        LET out == wsa_get_sweep_gain_rf(inst, k, InitMem.val)
        IN  CallM("wsa_get_sweep_gain_rf", 0, out, [InitMem EXCEPT !.val = out.val])

GetSweepTriggerType ==
    \E k \in ReplyKinds :
        LET out == wsa_get_sweep_trigger_type(inst, k, InitMem.val)
        IN  CallM("wsa_get_sweep_trigger_type", 0, out, [InitMem EXCEPT !.val = out.val])

GetGainIf ==
    \E k \in NumReplyKinds :
        LET out == wsa_get_gain_if(inst, descr, k, InitMem.val)
        IN  CallM("wsa_get_gain_if", 0, out, [InitMem EXCEPT !.val = out.val])

\* the fields of the reply that noise hits in this model: none, a number
\* before and after the RF gain, the RF gain, the trigger type, a trigger level
NoiseFields == {0, 2, 7, 9, 13, 15}

SweepEntryRead ==
    \E id \in Ids, k \in ReplyKinds :
    \E g \in (IF k = "answer" THEN NoiseFields ELSE {0}) :
        LET out == wsa_sweep_entry_read(inst, id, k, g, InitMem.sweep_list)
        IN  CallM("wsa_sweep_entry_read", id, out,
                  [InitMem EXCEPT !.sweep_list = out.sweep_list])

\* the sweep ends on the instrument by itself
SweepComplete ==
    /\ inst.sweep_status = "RUNNING"
    /\ inst' = [inst EXCEPT !.sweep_status = "STOPPED"]
    /\ op' = "sweep_complete"
    /\ arg' = 0
    /\ ret' = 0
    /\ io' = <<>>
    /\ pre' = inst
    /\ UNCHANGED <<descr, mem, loc>>

\* the absolute maximum input levels of a front end, by enum wsa_gain
AbsMaxAmp(n) ==
    IF n = "RFE0440"
    THEN [g \in 0 .. (NUM_RF_GAINS - 1) |->
            CASE g = WSA_GAIN_HIGH -> WSA_RFE0440_ABS_AMP_HIGH
              [] g = WSA_GAIN_MED -> WSA_RFE0440_ABS_AMP_MED
              [] g = WSA_GAIN_LOW -> WSA_RFE0440_ABS_AMP_LOW
              [] g = WSA_GAIN_VLOW -> WSA_RFE0440_ABS_AMP_VLOW
              [] OTHER -> 0]
    ELSE [g \in 0 .. (NUM_RF_GAINS - 1) |->
            CASE g = WSA_GAIN_HIGH -> WSA_RFE0560_ABS_AMP_HIGH
              [] g = WSA_GAIN_MED -> WSA_RFE0560_ABS_AMP_MED
              [] g = WSA_GAIN_LOW -> WSA_RFE0560_ABS_AMP_LOW
              [] g = WSA_GAIN_VLOW -> WSA_RFE0560_ABS_AMP_VLOW
              [] OTHER -> 0]

\* the descriptor wsa_connect fills in for the two front ends
Descriptors ==
    { [ prod_name |-> "WSA4000", inst_bw |-> WSA4000_INST_BW, abs_max_amp |-> AbsMaxAmp(n),
        rfe_name |-> n, min_tune_freq |-> MinTuneFreq, max_tune_freq |-> MaxTuneFreq,
        freq_resolution |-> FreqResolution,
        min_if_gain |-> WSA_RFE0560_MIN_IF_GAIN, max_if_gain |-> WSA_RFE0560_MAX_IF_GAIN,
        min_decimation |-> WSA_RFE0560_MIN_DECIMATION,
        max_decimation |-> WSA_RFE0560_MAX_DECIMATION ] :
        n \in {"RFE0560", "RFE0440"} }

\* the instrument when the device is opened
InitInst ==
    [ sweep_status |-> "STOPPED", sweep_list |-> <<>>, template |-> DefaultEntry,
      freq |-> MinTuneFreq, decimation |-> 0, gain_if |-> 0, gain_rf |-> "HIGH",
      fshift |-> 0 ]

Init ==
    /\ inst = InitInst
    /\ descr \in Descriptors
    /\ op = "wsa_open"
    /\ arg = 0
    /\ ret = 0
    /\ io = <<>>
    /\ pre = inst
    /\ mem = InitMem
    /\ loc = Idle

Next ==
    \/ SweepStart
    \/ SweepResume
    \/ SweepStop
    \/ FlushData
    \/ SystemAbortCapture
    \/ SweepEntryNew
    \/ SetSweepAntenna
    \/ SweepEntrySave
    \/ SweepEntryDelete
    \/ SweepEntryDeleteAll
    \/ SweepEntryCopy
    \/ SweepComplete

Spec == Init /\ [][Next]_vars

(***************************************************************************)
(* The data channel: packets are read while the sweep is stopped or runs.  *)
(***************************************************************************)
InitFrame ==
    /\ inst \in { InitInst,
                   [InitInst EXCEPT !.sweep_status = "RUNNING", !.sweep_list = <<DefaultEntry>>] }
    /\ descr \in Descriptors
    /\ op = "wsa_open"
    /\ arg = 0
    /\ ret = 0
    /\ io = <<>>
    /\ pre = inst
    /\ mem = InitMem
    /\ loc = Idle

NextFrame ==
    \/ ReadVrtPacket
    \/ SweepComplete
    \/ SetSamplesPerPacket
    \/ SetSweepSamplesPerPacket

SpecFrame == InitFrame /\ [][NextFrame]_vars

(***************************************************************************)
(* The instrument settings: center frequency and decimation are set and    *)
(* read back.                                                              *)
(***************************************************************************)
InitSettings ==
    /\ inst = InitInst
    /\ descr \in Descriptors
    /\ op = "wsa_open"
    /\ arg = 0
    /\ ret = 0
    /\ io = <<>>
    /\ pre = inst
    /\ mem = InitMem
    /\ loc = Idle

NextSettings ==
    \/ SetFreq
    \/ GetFreq
    \/ SetDecimation
    \/ GetDecimation
    \/ SetGainRf
    \/ GetGainRf
    \/ SetSweepGainRf

SpecSettings == InitSettings /\ [][NextSettings]_vars

(***************************************************************************)
(* The sweep entry template: a new template is made and its settings are   *)
(* set.                                                                    *)
(***************************************************************************)
InitTemplate ==
    /\ inst = InitInst
    /\ descr \in Descriptors
    /\ op = "wsa_open"
    /\ arg = 0
    /\ ret = 0
    /\ io = <<>>
    /\ pre = inst
    /\ mem = InitMem
    /\ loc = Idle

NextTemplate ==
    \/ SweepEntryNew
    \/ SetSweepFreq
    \/ SetSweepGainIf
    \/ SetSweepGainRf
    \/ SetSweepDecimation
    \/ SetSweepAntenna
    \/ SetSweepSamplesPerPacket
    \/ SetSweepPacketsPerBlock
    \/ SetSweepDwell
    \/ SetSweepTriggerLevel
    \/ SetSweepTriggerType

SpecTemplate == InitTemplate /\ [][NextTemplate]_vars

(***************************************************************************)
(* The session: the struct wsa_device is declared, the device is opened    *)
(* and, once it is open, calls are made that look at the descriptor.       *)
(***************************************************************************)
\* the descriptor of a struct wsa_device that was declared and zeroed
Unopened ==
    [ prod_name |-> "", prod_serial |-> "", prod_version |-> "", rfe_name |-> "",
      rfe_version |-> "", fw_version |-> "", inst_bw |-> 0, max_pkt_size |-> 0,
      max_tune_freq |-> 0, min_tune_freq |-> 0, freq_resolution |-> 0,
      max_if_gain |-> 0, min_if_gain |-> 0, min_decimation |-> 0, max_decimation |-> 0,
      abs_max_amp |-> [g \in 0 .. (NUM_RF_GAINS - 1) |-> 0] ]

\* the last wsa_open succeeded
Opened == descr.prod_name = "WSA4000"

InitOpen ==
    /\ inst = InitInst
    /\ descr = Unopened
    /\ op = "none"
    /\ arg = 0
    /\ ret = 0
    /\ io = <<>>
    /\ pre = inst
    /\ mem = InitMem
    /\ loc = Idle

NextOpen ==
    \/ CheckAddr
    \/ Open
    \/ Opened /\ GetAbsMaxAmp
    \/ Opened /\ SetFreq
    \/ Opened /\ GetFreq
    \/ Opened /\ SetSweepFreq
    \/ Opened /\ SetSweepTriggerLevel

SpecOpen == InitOpen /\ [][NextOpen]_vars

(***************************************************************************)
(* The getters, called on an instrument in any of a few states.            *)
(***************************************************************************)
InitGet ==
    /\ inst \in { InitInst,
                   [InitInst EXCEPT !.sweep_status = "RUNNING",
                                    !.sweep_list = <<EntryLevel, EntryNone>>] }
    /\ descr \in Descriptors
    /\ op = "wsa_open"
    /\ arg = 0
    /\ ret = 0
    /\ io = <<>>
    /\ pre = inst
    /\ mem = InitMem
    /\ loc = Idle

NextGet ==
    \/ GetAbsMaxAmp
    \/ GetSweepStatus
    \/ GetSweepEntrySize
    \/ GetFreq
    \/ GetDecimation
    \/ GetGainIf
    \/ GetFreqShift
    \/ GetSweepFreq
    \/ GetSweepFreqShift
    \/ GetSweepDecimation
    \/ GetGainRf
    \/ GetSweepGainRf
    \/ GetSweepTriggerType
    \/ SweepEntryRead
    \/ SweepComplete

SpecGet == InitGet /\ [][NextGet]_vars

(***************************************************************************)
(* Reading the events of the last call                                     *)
(***************************************************************************)
\* positions of the attempted writes of a command or query line
Writes(text) == { k \in 1 .. Len(io) : io[k].ev = "write" /\ io[k].text = text }
NumWritten(text) == Cardinality(Writes(text))
\* the line was written and the write did not fail
Delivered(text) == \E k \in Writes(text) : io[k].res >= 0
\* the query was made and its status was <= 0 (no response, or an empty reply)
QueryFailed(text) == \E k \in Writes(text) : io[k + 1].res <= 0
\* the query was made and a reply with this text was read
Answered(text, out) == \E k \in Writes(text) : io[k + 1].res > 0 /\ io[k + 1].text = out
\* the events on the data channel
DataEvents == { k \in 1 .. Len(io) : io[k].ch = "data" }
\* the size wsa_get_sweep_entry_size reports for an instrument that answers
ReportedSize(i) ==
    wsa_get_sweep_entry_size(wsa_send_query(i, "SWEEP:ENTRY:COUNT?", "answer"), 0).size

(***************************************************************************)
(* wsa_sweep_stop followed step by step: the part before the loop, one     *)
(* step for each iteration of while (clock() <= end_time), and the return. *)
(***************************************************************************)
DrainWindow == 5000
\* readings of clock() when the window is opened
ClockStarts == {0, 1}
\* processor time that passes during one iteration
ClockTicks == {0, 2500, 5001}
\* outcomes of wsa_sock_recv_data: 0, or a negative error (nothing arrived
\* within the timeout, or the socket failed)
RecvResults == {0, WSA_ERR_SOCKETERROR}

\* the result of the last receive is handed to the caller
wsa_sweep_stop_return_result(result) == result

\* return 0 after the loop; result holds what the last receive returned
wsa_sweep_stop_return(result) == 0

StopEnter ==
    /\ loc.pc = "idle"
    /\ \E snd1 \in SendResults, lag \in BOOLEAN, ks \in ReplyKinds, ub \in UninitStatus,
          snd2 \in SendResults, start_time \in ClockStarts :
        LET out == wsa_sweep_stop(inst, snd1, lag, ks, ub, snd2, 0)
        IN  /\ op' = "wsa_sweep_stop"
            /\ arg' = 0
            /\ io' = out.io
            /\ inst' = out.inst
            /\ pre' = inst
            /\ UNCHANGED <<descr, mem>>
            /\ IF out.ret < 0
               THEN ret' = out.ret /\ loc' = loc
               ELSE /\ ret' = ret
                    /\ loc' = [pc |-> "drain", clock |-> start_time,
                               end_time |-> DrainWindow + start_time, result |-> out.ret]

\* one iteration; the log of the call keeps the first MaxDrain receives
StopDrain(d) ==
    /\ loc.pc = "drain"
    /\ loc.clock <= loc.end_time
    /\ \E r \in RecvResults :
        /\ io' = IF Cardinality({k \in 1 .. Len(io) : io[k].ch = "data"}) < MaxDrain
                 THEN Append(io, Rv("discard", r)) ELSE io
        /\ loc' = [loc EXCEPT !.clock = @ + d, !.result = r]
    /\ UNCHANGED <<inst, descr, op, arg, ret, pre, mem>>

StopReturn ==
    /\ loc.pc = "drain"
    /\ ~(loc.clock <= loc.end_time)
    /\ ret' = wsa_sweep_stop_return(loc.result)
    /\ loc' = Idle
    /\ UNCHANGED <<inst, descr, op, arg, io, pre, mem>>

NextStop ==
    \/ StopEnter
    \/ \E d \in ClockTicks : StopDrain(d)
    \/ StopReturn
    \/ loc.pc = "idle" /\ SweepStart
    \/ loc.pc = "idle" /\ SweepEntryNew
    \/ loc.pc = "idle" /\ SweepEntrySave
    \/ loc.pc = "idle" /\ SweepComplete

\* the iterations use processor time, so the reading of clock() goes up in
\* the end; a return that is due is made
SpecStop ==
    /\ Init
    /\ [][NextStop]_vars
    /\ WF_vars(\E d \in ClockTicks \ {0} : StopDrain(d))
    /\ WF_vars(StopReturn)

(***************************************************************************)
(* C1: wsa_sweep_start fails with WSA_ERR_SWEEPALREADYRUNNING when the     *)
(* sweep status is RUNNING and with WSA_ERR_SWEEPLISTEMPTY when it is      *)
(* STOPPED and the list is empty; in both cases, and whenever the status   *)
(* or the size query fails, SWEEP:LIST:START is never written.             *)
(***************************************************************************)
C1_StartRejected ==
    op = "wsa_sweep_start" =>
        /\ Answered("SWEEP:LIST:STATUS?", "RUNNING") =>
               ret = WSA_ERR_SWEEPALREADYRUNNING
        /\ (Answered("SWEEP:LIST:STATUS?", "STOPPED") /\ Answered("SWEEP:ENTRY:COUNT?", "0")) =>
               ret = WSA_ERR_SWEEPLISTEMPTY
        /\ ( \/ pre.sweep_status = "RUNNING"
             \/ Len(pre.sweep_list) = 0
             \/ QueryFailed("SWEEP:LIST:STATUS?")
             \/ QueryFailed("SWEEP:ENTRY:COUNT?") ) =>
               NumWritten("SWEEP:LIST:START") = 0

(***************************************************************************)
(* C2: wsa_sweep_resume writes no SWEEP:LIST:RESUME when the sweep status  *)
(* is RUNNING or the list is empty; in every other case where both queries *)
(* succeed it writes exactly one.                                          *)
(***************************************************************************)
C2_ResumeRejected ==
    op = "wsa_sweep_resume" =>
        /\ (pre.sweep_status = "RUNNING" \/ Len(pre.sweep_list) = 0) =>
               (ret < 0 /\ NumWritten("SWEEP:LIST:RESUME") = 0)
        /\ ( /\ Answered("SWEEP:LIST:STATUS?", "STOPPED")
             /\ \E n \in 1 .. MaxList : Answered("SWEEP:ENTRY:COUNT?", ToString(n)) ) =>
               NumWritten("SWEEP:LIST:RESUME") = 1

(***************************************************************************)
(* C3: wsa_sweep_stop always writes SWEEP:LIST:STOP, and after every call  *)
(* in which that command was written it drains the data channel, reading   *)
(* and discarding what is left there, before it returns.                   *)
(***************************************************************************)
\* the call ended in the drain loop: after the flush command only receives
\* that are thrown away, at least one of them
Drained ==
    /\ DataEvents # {}
    /\ \A k \in DataEvents : io[k].text = "discard"
    /\ \A k \in DataEvents, j \in 1 .. Len(io) : io[j].ch = "cmd" => j < k

\* C3 as stated: every call that wrote the stop command drains
C3_StopAlwaysDrains ==
    op = "wsa_sweep_stop" =>
        /\ NumWritten("SWEEP:LIST:STOP") = 1
        /\ Delivered("SWEEP:LIST:STOP") => Drained

\* C3 amended: the stop command is written first in every call; the
\* call drains and returns 0 exactly when that write and the wsa_flush_data
\* after it did not fail, and otherwise returns the error without touching
\* the data channel
C3_StopDrainsAfterFlush ==
    op = "wsa_sweep_stop" =>
        /\ NumWritten("SWEEP:LIST:STOP") = 1
        /\ io[1].text = "SWEEP:LIST:STOP"
        /\ (Delivered("SWEEP:LIST:STOP") /\ Delivered("SWEEP:FLUSH")) => (ret = 0 /\ Drained)
        /\ ~(Delivered("SWEEP:LIST:STOP") /\ Delivered("SWEEP:FLUSH")) => (ret < 0 /\ DataEvents = {})

C3_Witness ==
    /\ op = "wsa_sweep_stop"
    /\ pre.sweep_status = "RUNNING"
    /\ inst.sweep_status = "STOPPED"
    /\ ret = 0
    /\ Cardinality(DataEvents) = MaxDrain

(***************************************************************************)
(* C4: for every frequency outside [min_tune_freq, max_tune_freq],         *)
(* negative values included, wsa_set_freq returns WSA_ERR_FREQOUTOFBOUND   *)
(* and writes nothing on the command channel.                              *)
(***************************************************************************)
C4_FreqOutOfBound ==
    (op = "wsa_set_freq" /\ (arg < descr.min_tune_freq \/ arg > descr.max_tune_freq)) =>
        (ret = WSA_ERR_FREQOUTOFBOUND /\ io = <<>>)

C4_Witness ==
    /\ op = "wsa_set_freq"
    /\ arg < 0
    /\ ret = WSA_ERR_FREQOUTOFBOUND
    /\ io = <<>>

(***************************************************************************)
(* C5: wsa_sweep_entry_delete(id) with id outside [1, size], size being    *)
(* the size of the remote list, fails with WSA_ERR_SWEEPIDOOB, sends no    *)
(* delete command and leaves the size of the list as it was.               *)
(***************************************************************************)
C5_DeleteOutOfBounds ==
    (op = "wsa_sweep_entry_delete" /\ (arg < 1 \/ arg > Len(pre.sweep_list))) =>
        /\ Answered("SWEEP:ENTRY:COUNT?", ToString(Len(pre.sweep_list))) =>
               ret = WSA_ERR_SWEEPIDOOB
        /\ ret < 0
        /\ NumWritten("SWEEP:ENTRY:DELETE") = 0
        /\ ReportedSize(inst) = ReportedSize(pre)

(***************************************************************************)
(* C6: wsa_sweep_entry_save(id) writes SWEEP:ENTRY:SAVE if and only if the *)
(* size query succeeded and 0 <= id <= size + 1; for every other id it     *)
(* returns WSA_ERR_SWEEPIDOOB and the remote list is unchanged.            *)
(***************************************************************************)
C6_SaveIffInRange ==
    op = "wsa_sweep_entry_save" =>
        /\ NumWritten("SWEEP:ENTRY:SAVE") = 1 <=>
               ( /\ Answered("SWEEP:ENTRY:COUNT?", ToString(Len(pre.sweep_list)))
                 /\ 0 <= arg
                 /\ arg <= Len(pre.sweep_list) + 1 )
        /\ ( /\ Answered("SWEEP:ENTRY:COUNT?", ToString(Len(pre.sweep_list)))
             /\ (arg < 0 \/ arg > Len(pre.sweep_list) + 1) ) =>
               (ret = WSA_ERR_SWEEPIDOOB /\ inst.sweep_list = pre.sweep_list)

(***************************************************************************)
(* C7: a successful wsa_sweep_entry_save(0) appends: the size reported by  *)
(* wsa_get_sweep_entry_size grows by exactly 1, the saved template is at   *)
(* the last position and the entries that were there are unchanged.        *)
(***************************************************************************)
C7_SaveZeroAppends ==
    (op = "wsa_sweep_entry_save" /\ arg = 0 /\ ret = 0) =>
        /\ ReportedSize(inst) = ReportedSize(pre) + 1
        /\ inst.sweep_list[Len(inst.sweep_list)] = pre.template
        /\ \A k \in 1 .. Len(pre.sweep_list) : inst.sweep_list[k] = pre.sweep_list[k]

\* C7 witness: an append after which the last entry differs from the first
C7_Witness ==
    /\ op = "wsa_sweep_entry_save"
    /\ arg = 0
    /\ ret = 0
    /\ Len(inst.sweep_list) = Len(pre.sweep_list) + 1
    /\ Len(pre.sweep_list) > 0
    /\ inst.sweep_list[Len(inst.sweep_list)] # inst.sweep_list[1]

(***************************************************************************)
(* C8: wsa_sweep_entry_copy(id) sends SWEEP:ENTRY:COPY for id and succeeds *)
(* when the list is not empty and id is a position in [1, size], the       *)
(* template then holding that entry; it is rejected, with no copy command  *)
(* sent, when the list is empty or id is not a position of the list.       *)
(***************************************************************************)
C8_CopyValidPosition ==
    op = "wsa_sweep_entry_copy" =>
        /\ (arg \in 1 .. Len(pre.sweep_list) /\ ~QueryFailed("SWEEP:ENTRY:COUNT?")) =>
               /\ NumWritten("SWEEP:ENTRY:COPY") = 1
               /\ Delivered("SWEEP:ENTRY:COPY") =>
                      (ret = 0 /\ inst.template = pre.sweep_list[arg])
        /\ arg \notin 1 .. Len(pre.sweep_list) =>
               (ret < 0 /\ NumWritten("SWEEP:ENTRY:COPY") = 0)

(***************************************************************************)
(* C9: when wsa_read_vrt_packet reads a header with a stream identifier    *)
(* that is not known, it returns WSA_ERR_NOTIQFRAME and SYSTEM:ABORT is    *)
(* written exactly once in that call, whether the sweep is STOPPED or      *)
(* RUNNING.                                                                *)
(***************************************************************************)
\* the raw read of the last wsa_read_vrt_packet returned r
RawResult(r) == op = "wsa_read_vrt_packet" /\ io[1].res = r

\* C9 as stated, for the calls in which the instrument answers the status query
C9_AbortExactlyOnce ==
    (RawResult(WSA_ERR_NOTIQFRAME) /\ Answered("SWEEP:LIST:STATUS?", pre.sweep_status)) =>
        (ret = WSA_ERR_NOTIQFRAME /\ NumWritten("SYSTEM:ABORT") = 1)

\* C9 amended: wsa_system_abort_capture is called once; it asks the
\* sweep status and writes SYSTEM:ABORT once when the answer is STOPPED, and
\* not at all when the answer is RUNNING or not a status, or when the query
\* returns a negative code
C9_AbortOnceWhenStopped ==
    RawResult(WSA_ERR_NOTIQFRAME) =>
        /\ ret = WSA_ERR_NOTIQFRAME
        /\ NumWritten("SWEEP:LIST:STATUS?") = 1
        /\ NumWritten("SYSTEM:ABORT") <= 1
        /\ Answered("SWEEP:LIST:STATUS?", "STOPPED") => NumWritten("SYSTEM:ABORT") = 1
        /\ ( \/ Answered("SWEEP:LIST:STATUS?", "RUNNING")
             \/ Answered("SWEEP:LIST:STATUS?", "?")
             \/ \E k \in Writes("SWEEP:LIST:STATUS?") : io[k + 1].res < 0 ) =>
               NumWritten("SYSTEM:ABORT") = 0

C9_Witness ==
    /\ RawResult(WSA_ERR_NOTIQFRAME)
    /\ pre.sweep_status = "STOPPED"
    /\ Answered("SWEEP:LIST:STATUS?", "STOPPED")
    /\ Delivered("SYSTEM:ABORT")

(***************************************************************************)
(* C10: every failure of the data channel while wsa_read_vrt_packet reads  *)
(* an IQ frame, whatever its negative code, triggers the abort-capture     *)
(* command before the error is returned; a failure while reading a context *)
(* frame does not.                                                         *)
(***************************************************************************)
\* wsa_system_abort_capture was called: it begins by asking the sweep status
AbortCalled == NumWritten("SWEEP:LIST:STATUS?") > 0

\* C10 as stated
C10_AbortOnEveryIQFailure ==
    (op = "wsa_read_vrt_packet" /\ io[1].res < 0) =>
        /\ io[1].text = "IF_DATA" => AbortCalled
        /\ io[1].text \in {"RECEIVER", "DIGITIZER"} => ~AbortCalled

\* C10 amended: the abort is triggered by the not-an-IQ-frame code and
\* by no other result, whatever frame was being read; the error of the raw
\* read is what is returned
C10_AbortOnlyOnNotIQFrame ==
    op = "wsa_read_vrt_packet" =>
        /\ AbortCalled <=> io[1].res = WSA_ERR_NOTIQFRAME
        /\ io[1].res < 0 => ret = io[1].res
        /\ io[1].res # WSA_ERR_NOTIQFRAME => Len(io) = 1

C10_Witness ==
    /\ op = "wsa_read_vrt_packet"
    /\ io[1].text = "IF_DATA"
    /\ io[1].res = WSA_ERR_SOCKETERROR
    /\ ret = WSA_ERR_SOCKETERROR
    /\ ~AbortCalled

(***************************************************************************)
(* C11: when wsa_read_vrt_packet returns 0 for a frame with the IQ data    *)
(* stream identifier whose payload holds exactly samples_per_packet sample *)
(* pairs, i_buffer[k] and q_buffer[k] hold the k-th decoded pair of the    *)
(* payload, for every k below samples_per_packet.                          *)
(***************************************************************************)
C11_BuffersHoldPairs ==
    ( /\ op = "wsa_read_vrt_packet"
      /\ ret = 0
      /\ io[1].text = "IF_DATA"
      /\ Len(arg.payload) = 2 * arg.samples_per_packet ) =>
        \A k \in 1 .. arg.samples_per_packet :
            /\ mem.i_buffer[k] = ToInt16(arg.payload[2 * k - 1])
            /\ mem.q_buffer[k] = ToInt16(arg.payload[2 * k])

\* C11 witness: a full packet whose pairs differ in I and Q and from each other
C11_Witness ==
    /\ op = "wsa_read_vrt_packet"
    /\ ret = 0
    /\ io[1].text = "IF_DATA"
    /\ arg.samples_per_packet = MaxSamples
    /\ Len(arg.payload) = 2 * MaxSamples
    /\ mem.i_buffer[1] = -2
    /\ mem.q_buffer[1] = 1
    /\ mem.i_buffer[2] = 1
    /\ mem.q_buffer[2] = -2

(***************************************************************************)
(* C12: when the frame read by wsa_read_vrt_packet is a context frame      *)
(* (receiver or digitizer), the call returns without writing any element   *)
(* of i_buffer or q_buffer.                                                *)
(***************************************************************************)
C12_ContextLeavesBuffers ==
    [][ (op' = "wsa_read_vrt_packet" /\ io'[1].text \in {"RECEIVER", "DIGITIZER"}) =>
            (mem'.i_buffer = mem.i_buffer /\ mem'.q_buffer = mem.q_buffer) ]_vars

\* C12 witness: a context frame read into buffers that hold decoded samples
C12_Witness ==
    /\ op = "wsa_read_vrt_packet"
    /\ io[1].text = "DIGITIZER"
    /\ ret = 0
    /\ mem.i_buffer[1] = -2
    /\ mem.q_buffer[MaxSamples] = -2

(***************************************************************************)
(* C13: wsa_get_sweep_status succeeds only when the reply is exactly       *)
(* "STOPPED" or "RUNNING", and then the reply is copied to the caller's    *)
(* buffer; for any other non-empty reply it returns WSA_ERR_SWEEPMODEUNDEF *)
(* and the caller's buffer is left as it was.                              *)
(***************************************************************************)
C13_StatusOnlyKnown ==
    op = "wsa_get_sweep_status" =>
        /\ ret = 0 => (io[2].text \in {"STOPPED", "RUNNING"} /\ mem.status = io[2].text)
        /\ (io[2].res > 0 /\ io[2].text \notin {"STOPPED", "RUNNING"}) =>
               (ret = WSA_ERR_SWEEPMODEUNDEF /\ mem.status = InitMem.status)

(***************************************************************************)
(* C14: when the reply to wsa_sweep_entry_read is a record whose trigger   *)
(* type field is "NONE", the call sets trigger_enable to 0, leaves         *)
(* trigger_start_freq, trigger_stop_freq and trigger_amplitude of the      *)
(* caller's struct as they were, reads nothing after the trigger type and  *)
(* returns 0.                                                              *)
(***************************************************************************)
\* the reply of the last call is a record of this trigger type: twelve
\* settings, numbers but for the RF gain, and then the trigger type
RecordOfType(type) ==
    /\ Len(io) = 2
    /\ io[2].res > 0
    /\ LET tok == Tokens(io[2].text)
       IN  /\ Len(tok) >= 13
           /\ tok[13] = type
           /\ \A k \in (1 .. 12) \ {7} : to_double(tok[k]).result = 0

C14_NoneLeavesTriggerLevels ==
    (op = "wsa_sweep_entry_read" /\ RecordOfType("NONE")) =>
        /\ ret = 0
        /\ mem.sweep_list.trigger_enable = 0
        /\ mem.sweep_list.trigger_start_freq = InitMem.sweep_list.trigger_start_freq
        /\ mem.sweep_list.trigger_stop_freq = InitMem.sweep_list.trigger_stop_freq
        /\ mem.sweep_list.trigger_amplitude = InitMem.sweep_list.trigger_amplitude

\* C14 witness: the entry without a trigger has been read
C14_Witness ==
    /\ op = "wsa_sweep_entry_read"
    /\ RecordOfType("NONE")
    /\ ret = 0
    /\ mem.sweep_list.start_freq = EntryNone.start_freq
    /\ mem.sweep_list.dwell_microseconds = EntryNone.dwell_microseconds
    /\ mem.sweep_list.trigger_enable = 0

(***************************************************************************)
(* C15: wsa_sweep_entry_read assigns the fields of the reply by position:  *)
(* fields 1 to 12 to start_freq, stop_freq, fstep, fshift,                 *)
(* decimation_rate, ant_port, gain_rf, gain_if, samples_per_packet,        *)
(* packets_per_block, dwell_seconds, dwell_microseconds, field 13 is the   *)
(* trigger type, and only when it is "LEVEL" fields 14 to 16 go to         *)
(* trigger_start_freq, trigger_stop_freq, trigger_amplitude, with          *)
(* trigger_enable set to 1.                                                *)
(***************************************************************************)
\* the value of enum wsa_gain for the name the instrument writes
GainOf(name) ==
    CASE name = "HIGH" -> WSA_GAIN_HIGH
      [] name = "MED" -> WSA_GAIN_MED
      [] name = "LOW" -> WSA_GAIN_LOW
      [] name = "VLOW" -> WSA_GAIN_VLOW

\* the entry the last wsa_sweep_entry_read asked for was sent as it is
ReadEntry(e) ==
    /\ op = "wsa_sweep_entry_read"
    /\ arg \in 1 .. Len(inst.sweep_list)
    /\ e = inst.sweep_list[arg]
    /\ Len(io) = 2
    /\ io[2].res > 0
    /\ io[2].text = EntryRecord(e)

C15_FieldsByPosition ==
    \A e \in {EntryLevel, EntryNone} :
        ReadEntry(e) =>
            /\ ret = 0
            /\ mem.sweep_list.start_freq = e.start_freq
            /\ mem.sweep_list.stop_freq = e.stop_freq
            /\ mem.sweep_list.fstep = e.fstep
            /\ mem.sweep_list.fshift = e.fshift
            /\ mem.sweep_list.decimation_rate = e.decimation_rate
            /\ mem.sweep_list.ant_port = e.ant_port
            /\ mem.sweep_list.gain_rf = GainOf(e.gain_rf)
            /\ mem.sweep_list.gain_if = e.gain_if
            /\ mem.sweep_list.samples_per_packet = e.samples_per_packet
            /\ mem.sweep_list.packets_per_block = e.packets_per_block
            /\ mem.sweep_list.dwell_seconds = e.dwell_seconds
            /\ mem.sweep_list.dwell_microseconds = e.dwell_microseconds
            /\ e.trigger_type = "LEVEL" =>
                   /\ mem.sweep_list.trigger_enable = 1
                   /\ mem.sweep_list.trigger_start_freq = e.trigger_start_freq
                   /\ mem.sweep_list.trigger_stop_freq = e.trigger_stop_freq
                   /\ mem.sweep_list.trigger_amplitude = e.trigger_amplitude
            /\ e.trigger_type # "LEVEL" =>
                   /\ mem.sweep_list.trigger_enable # 1
                   /\ mem.sweep_list.trigger_start_freq = InitMem.sweep_list.trigger_start_freq
                   /\ mem.sweep_list.trigger_stop_freq = InitMem.sweep_list.trigger_stop_freq
                   /\ mem.sweep_list.trigger_amplitude = InitMem.sweep_list.trigger_amplitude

\* C15 witness: the entry with a level trigger has been read
C15_Witness ==
    /\ ReadEntry(EntryLevel)
    /\ ret = 0
    /\ mem.sweep_list.trigger_enable = 1
    /\ mem.sweep_list.trigger_amplitude = EntryLevel.trigger_amplitude
    /\ mem.sweep_list.gain_rf = WSA_GAIN_VLOW

(***************************************************************************)
(* C16: every getter built on wsa_send_query returns at once when the      *)
(* status of the query is <= 0: it returns that status, nothing is parsed  *)
(* and nothing is written through its out-parameter.                       *)
(***************************************************************************)
Getters ==
    { "wsa_get_sweep_status", "wsa_get_sweep_entry_size", "wsa_get_freq",
      "wsa_get_decimation", "wsa_get_gain_if", "wsa_sweep_entry_read" }

C16_FailedQueryShortCircuits ==
    (op \in Getters /\ Len(io) >= 2 /\ io[2].res <= 0) =>
        /\ ret = io[2].res
        /\ Len(io) = 2
        /\ mem = InitMem

\* C16 witness: a query that is not answered in time
C16_Witness ==
    /\ op = "wsa_get_decimation"
    /\ io[2].res = WSA_ERR_QUERYNORESP
    /\ ret = WSA_ERR_QUERYNORESP
    /\ mem = InitMem

(***************************************************************************)
(* C17: an empty reply (query status exactly 0) is reported to the caller  *)
(* as an error: no getter returns 0 unless a reply that is not empty was   *)
(* received and stored.                                                    *)
(***************************************************************************)
C17_EmptyReplyIsError ==
    (op \in Getters /\ ret = 0) => (Len(io) = 2 /\ io[2].res > 0 /\ mem # InitMem)

(***************************************************************************)
(* C18: wsa_get_freq, wsa_get_decimation and wsa_get_gain_if report a      *)
(* reply that is not a number and a number outside the declared range      *)
(* with two different error codes.                                         *)
(***************************************************************************)
NumGetters == {"wsa_get_freq", "wsa_get_decimation", "wsa_get_gain_if"}

\* the reply of the last call is a number outside the range the descriptor
\* declares for the setting that was asked for
OutOfRangeReply ==
    /\ Len(io) = 2
    /\ io[2].res > 0
    /\ to_double(io[2].text).result = 0
    /\ LET v == to_double(io[2].text).val
       IN  CASE op = "wsa_get_freq" -> v < descr.min_tune_freq \/ v > descr.max_tune_freq
             [] op = "wsa_get_decimation" ->
                  (v # 0 /\ v < descr.min_decimation) \/ v > descr.max_decimation
             [] op = "wsa_get_gain_if" -> v < descr.min_if_gain \/ v > descr.max_if_gain
             [] OTHER -> FALSE

\* the reply of the last call is not a number
UnparsableReply == Len(io) = 2 /\ io[2].res > 0 /\ to_double(io[2].text).result < 0

\* what the getter of the last call returns for a reply that is not a number
UnparsableCode ==
    CASE op = "wsa_get_freq" -> wsa_get_freq(inst, descr, "garbled", 0).ret
      [] op = "wsa_get_decimation" -> wsa_get_decimation(inst, descr, "garbled", 0).ret
      [] op = "wsa_get_gain_if" -> wsa_get_gain_if(inst, descr, "garbled", 0).ret

SweepSetters ==
    { "wsa_set_sweep_freq", "wsa_set_sweep_gain_if", "wsa_set_sweep_gain_rf",
      "wsa_set_sweep_decimation", "wsa_set_sweep_antenna",
      "wsa_set_sweep_samples_per_packet", "wsa_set_sweep_packets_per_block",
      "wsa_set_sweep_dwell", "wsa_set_sweep_trigger_level", "wsa_set_sweep_trigger_type" }

ValidationErrors ==
    { WSA_ERR_INVRFESETTING, WSA_ERR_INVANTENNAPORT, WSA_ERR_INVIFGAIN, WSA_ERR_INVRFGAIN,
      WSA_ERR_INVSAMPLESIZE, WSA_ERR_INVNUMBER, WSA_ERR_INVCAPTURESIZE,
      WSA_ERR_INVDECIMATIONRATE, WSA_ERR_FREQOUTOFBOUND, WSA_ERR_STARTOOB, WSA_ERR_STOPOOB,
      WSA_ERR_INVSTOPFREQ, WSA_ERR_INVALID_DWELL, WSA_ERR_INVTRIGGERMODE }

InTuneRange(f) == descr.min_tune_freq <= f /\ f <= descr.max_tune_freq

Admitted(text, n) ==
    CASE text = "SWEEP:ENTRY:FREQ:CENT" -> InTuneRange(n[1]) /\ InTuneRange(n[2]) /\ n[1] < n[2]
      [] text = "SWEEP:ENTRY:GAIN:IF" -> descr.min_if_gain <= n /\ n <= descr.max_if_gain
      [] text = "SWEEP:ENTRY:GAIN:RF" -> n \in {"HIGH", "MED", "LOW", "VLOW"}
      [] text = "SWEEP:ENTRY:DECIMATION" ->
            n = 0 \/ (descr.min_decimation <= n /\ n <= descr.max_decimation)
      [] text = "SWEEP:ENTRY:ANTENNA" -> 1 <= n /\ n <= WSA_RFE0560_MAX_ANT_PORT
      [] text = "SWEEP:ENTRY:SPPACKET" ->
            WSA4000_MIN_SAMPLES_PER_PACKET <= n /\ n <= WSA4000_MAX_SAMPLES_PER_PACKET
      [] text = "SWEEP:ENTRY:PPBLOCK" ->
            WSA4000_MIN_PACKETS_PER_BLOCK <= n /\ n <= WSA4000_MAX_PACKETS_PER_BLOCK
      [] text = "SWEEP:ENTRY:DWELL" -> n[1] >= 0 /\ n[2] >= 0
      [] text = "SWEEP:ENTRY:TRIGGER:LEVEL" ->
            InTuneRange(n[1]) /\ InTuneRange(n[2]) /\ n[1] < n[2]
      [] text = "SWEEP:ENTRY:TRIGGER:TYPE" -> n \in {"NONE", "LEVEL"}
      [] OTHER -> FALSE

C19_ValidateBeforeSend ==
    op \in SweepSetters =>
        /\ ret \in ValidationErrors => io = <<>>
        /\ \A k \in 1 .. Len(io) : io[k].ev = "write" /\ Admitted(io[k].text, io[k].arg)

\* C19 witness: a trigger range whose two ends are each in the tuning range
\* but in the wrong order is refused, and nothing was written
C19_Witness ==
    /\ op = "wsa_set_sweep_trigger_level"
    /\ InTuneRange(arg[1])
    /\ InTuneRange(arg[2])
    /\ arg[2] <= arg[1]
    /\ ret = WSA_ERR_INVSTOPFREQ
    /\ io = <<>>

(***************************************************************************)
(* C20: wsa_set_decimation(rate) writes the decimation command if and only *)
(* if rate is 0 or lies in [min_decimation, max_decimation]; any other     *)
(* rate (above the maximum, or below the minimum and not 0, negative ones  *)
(* included) is refused with WSA_ERR_INVDECIMATIONRATE, nothing is written *)
(* and the decimation of the instrument is as before.  A rate of 0 is      *)
(* never refused: the call returns 0 unless the write itself fails, and    *)
(* when wsa_get_decimation is the next call and the instrument answers it, *)
(* it returns 0 and hands back the rate 0.                                 *)
(***************************************************************************)
DecimationAdmitted(rate) ==
    rate = 0 \/ (descr.min_decimation <= rate /\ rate <= descr.max_decimation)

\* the state that a call of wsa_set_decimation leaves
C20_AfterSet ==
    op = "wsa_set_decimation" =>
        /\ NumWritten("SENSE:DEC") = 1 <=> DecimationAdmitted(arg)
        /\ NumWritten("SENSE:DEC") = Len(io)
        /\ ~DecimationAdmitted(arg) =>
              (ret = WSA_ERR_INVDECIMATIONRATE /\ inst.decimation = pre.decimation)
        /\ arg = 0 => ret = io[1].res
        /\ (arg = 0 /\ Delivered("SENSE:DEC")) => (ret = 0 /\ inst.decimation = 0)

C20_SetDecimation ==
    [][ /\ C20_AfterSet'
        /\ ( /\ op = "wsa_set_decimation" /\ arg = 0 /\ ret = 0
              /\ op' = "wsa_get_decimation"
              /\ Answered(":SENSE:DEC?", ToString(inst.decimation))' )
            => (ret' = 0 /\ mem'.val = 0) ]_vars

\* C20 witness: the instrument decimates, a rate above the maximum is refused
\* and the instrument decimates as before
C20_Witness ==
    /\ op = "wsa_set_decimation"
    /\ arg > descr.max_decimation
    /\ ret = WSA_ERR_INVDECIMATIONRATE
    /\ io = <<>>
    /\ pre.decimation = descr.min_decimation
    /\ inst.decimation = pre.decimation


(***************************************************************************)
(* C21: after wsa_set_freq(f) has returned 0 the instrument is tuned to f  *)
(* truncated to its resolution, and a wsa_get_freq that the instrument     *)
(* answers while it is tuned to a frequency of the tuning range returns 0  *)
(* and hands back that frequency; so when wsa_get_freq is the next call    *)
(* after a successful wsa_set_freq(f), it hands back f truncated to the    *)
(* resolution.                                                             *)
(***************************************************************************)
Truncated(f) == f - (f % descr.freq_resolution)

C21_AfterSetFreq ==
    (op = "wsa_set_freq" /\ ret = 0) =>
        /\ InTuneRange(arg)
        /\ inst.freq = Truncated(arg)
        /\ InTuneRange(inst.freq)

C21_AfterGetFreq ==
    (op = "wsa_get_freq" /\ Answered("FREQ:CENT?", ToString(inst.freq)) /\ InTuneRange(inst.freq)) =>
        (ret = 0 /\ mem.val = inst.freq)

C21_FreqRoundTrip ==
    [][ /\ C21_AfterSetFreq'
        /\ C21_AfterGetFreq'
        /\ ( /\ op = "wsa_set_freq" /\ ret = 0
              /\ op' = "wsa_get_freq"
              /\ Answered("FREQ:CENT?", ToString(inst.freq))' )
            => (ret' = 0 /\ mem'.val = Truncated(arg)) ]_vars

\* C21 witness: a frequency was read back that the instrument had truncated
C21_Witness ==
    /\ op = "wsa_get_freq"
    /\ ret = 0
    /\ mem.val = MinTuneFreq + FreqResolution
    /\ mem.val = inst.freq


(***************************************************************************)
(* C22: once wsa_open has returned, a call of any other function leaves    *)
(* every field of the descriptor as it was: the descriptor changes only in *)
(* a call of wsa_open.                                                     *)
(***************************************************************************)
C22_DescriptorOnlyWrittenByOpen ==
    [][op' # "wsa_open" => descr' = descr]_vars

\* C22 witness: the device is open, its descriptor is filled in, and a call
\* that looks at the descriptor has returned
C22_Witness ==
    /\ op = "wsa_get_abs_max_amp"
    /\ descr.prod_name = "WSA4000"
    /\ descr.rfe_name = "RFE0560"
    /\ descr.min_tune_freq = WSA_RFE0560_MIN_FREQ
    /\ descr.max_tune_freq = WSA_RFE0560_MAX_FREQ


(***************************************************************************)
(* C23: on the command channel at most one query is outstanding: in the    *)
(* events of every call, the write of a query is directly followed by the  *)
(* reading of its reply (which may have failed or timed out), so that no   *)
(* command or query is written while a reply is still to be read, and      *)
(* every reply that is read belongs to the query written just before it.   *)
(***************************************************************************)
IsQuery(e) == e.ev = "write" /\ strstr(e.text, "?")

C23_OneQueryOutstanding ==
    \A k \in 1 .. Len(io) :
        /\ IsQuery(io[k]) => (k < Len(io) /\ io[k + 1].ev = "reply")
        /\ io[k].ev = "reply" => (k > 1 /\ IsQuery(io[k - 1]))

\* C23 witness: a wsa_sweep_start that made its two queries and wrote its
\* command
C23_Witness ==
    /\ op = "wsa_sweep_start"
    /\ ret = 0
    /\ Len(io) = 5
    /\ IsQuery(io[1])
    /\ IsQuery(io[3])
    /\ io[5].ev = "write"


(***************************************************************************)
(* C24: no operation on the sweep list (entry new, save, read, delete,     *)
(* delete all, copy, the size and status queries, start, stop, resume)     *)
(* reads from or writes to the data channel: every channel event of such a *)
(* call is on the command channel.                                         *)
(***************************************************************************)
SweepListOps ==
    { "wsa_sweep_entry_new", "wsa_sweep_entry_save", "wsa_sweep_entry_read",
      "wsa_sweep_entry_delete", "wsa_sweep_entry_delete_all", "wsa_sweep_entry_copy",
      "wsa_get_sweep_entry_size", "wsa_get_sweep_status",
      "wsa_sweep_start", "wsa_sweep_stop", "wsa_sweep_resume" }

C24_NoDataChannel ==
    op \in SweepListOps => DataEvents = {}

(***************************************************************************)
(* C24 as the code has it: of the operations on the sweep list only        *)
(* wsa_sweep_stop touches the data channel.  When it returns 0 it has,     *)
(* after its last event on the command channel, received from the data     *)
(* channel at least once and thrown away what it received; when it returns *)
(* an error it has not touched the data channel.                           *)
(***************************************************************************)
C24_OnlyStopDrains ==
    op \in SweepListOps =>
        /\ op # "wsa_sweep_stop" => DataEvents = {}
        /\ op = "wsa_sweep_stop" =>
              /\ DataEvents # {} <=> ret = 0
              /\ \A k \in DataEvents :
                    /\ io[k].ev = "recv"
                    /\ io[k].text = "discard"
                    /\ \A j \in 1 .. Len(io) : io[j].ch = "cmd" => j < k

\* C24 witness: a wsa_sweep_stop that wrote its commands and then received
\* from the data channel
C24_Witness ==
    /\ op = "wsa_sweep_stop"
    /\ ret = 0
    /\ NumWritten("SWEEP:LIST:STOP") = 1
    /\ DataEvents # {}


(***************************************************************************)
(* C25: wsa_check_addr returns 0 only if the address was verified for the  *)
(* command port 37001 and for the data port 37000 and both verifications   *)
(* succeeded; the command port is verified first, and when that fails its  *)
(* error is returned and the data port is not verified.                    *)
(***************************************************************************)
C25_BothPortsInOrder ==
    op = "wsa_check_addr" =>
        /\ Len(io) >= 1
        /\ io[1].ev = "verify" /\ io[1].text = "37001"
        /\ io[1].res < 0 => (ret = io[1].res /\ Len(io) = 1)
        /\ io[1].res >= 0 =>
              /\ Len(io) = 2
              /\ io[2].ev = "verify" /\ io[2].text = "37000"
              /\ io[2].res < 0 => ret = io[2].res
        /\ ret = 0 <=> (Len(io) = 2 /\ io[1].res >= 0 /\ io[2].res >= 0)

\* C25 witness: the address does not verify for the command port, that
\* error is returned and nothing else was verified
C25_Witness ==
    /\ op = "wsa_check_addr"
    /\ ret = WSA_ERR_INVIPHOSTADDRESS
    /\ Len(io) = 1
    /\ io[1].text = "37001"
    /\ io[1].res = WSA_ERR_INVIPHOSTADDRESS


(***************************************************************************)
(* C26: wsa_open with an interface method that names USB makes no attempt  *)
(* to connect and fails, and the code it returns tells this failure apart: *)
(* a wsa_open with any other interface method (a connection that failed,   *)
(* or a method that is not recognised) does not return the same code.      *)
(***************************************************************************)
C26_UsbHasItsOwnCode ==
    [][ /\ (op' = "wsa_open" /\ HasPrefix(arg', "USB")) => (io' = <<>> /\ ret' < 0)
        /\ ( /\ op = "wsa_open" /\ HasPrefix(arg, "USB")
              /\ op' = "wsa_open" /\ ~HasPrefix(arg', "USB") )
            => ret' # ret ]_vars


(***************************************************************************)
(* C27: every call of wsa_read_vrt_packet makes exactly one raw packet     *)
(* read on the data channel, as its first channel event, whether the read  *)
(* succeeds or fails: a failed read is not made again, fewer than          *)
(* MAX_RETRIES_READ_FRAME reads are made.                                  *)
(***************************************************************************)
C27_SingleAttempt ==
    op = "wsa_read_vrt_packet" =>
        /\ Cardinality(DataEvents) = 1
        /\ Cardinality(DataEvents) < MAX_RETRIES_READ_FRAME
        /\ io[1].ch = "data" /\ io[1].ev = "recv"
        /\ io[1].res < 0 => ret = io[1].res

\* C27 witness: the raw read failed with a socket error, which was returned
\* after that single read
C27_Witness ==
    /\ op = "wsa_read_vrt_packet"
    /\ ret = WSA_ERR_SOCKETERROR
    /\ Len(io) = 1
    /\ io[1].ch = "data"
    /\ io[1].res = WSA_ERR_SOCKETERROR


(***************************************************************************)
(* C28: for each of the four RF gain settings WSA_GAIN_HIGH, WSA_GAIN_MED, *)
(* WSA_GAIN_LOW and WSA_GAIN_VLOW wsa_get_abs_max_amp returns 0 and hands  *)
(* back the element of descr.abs_max_amp for that gain; for every other    *)
(* gain it returns WSA_ERR_INVRFGAIN and the caller's value is as before.  *)
(***************************************************************************)
C28_AbsMaxAmpOfGain ==
    op = "wsa_get_abs_max_amp" =>
        IF arg \in WSA_GAIN_HIGH .. WSA_GAIN_VLOW
        THEN ret = 0 /\ mem.val = descr.abs_max_amp[arg]
        ELSE ret = WSA_ERR_INVRFGAIN /\ mem.val = InitMem.val


(***************************************************************************)
(* C29: wsa_set_gain_rf and wsa_set_sweep_gain_rf write a command exactly  *)
(* for the four gains WSA_GAIN_HIGH, WSA_GAIN_MED, WSA_GAIN_LOW and        *)
(* WSA_GAIN_VLOW, and gain_rf_strtonum maps the keyword that was written   *)
(* back to the gain that was given ("VLOW" to WSA_GAIN_VLOW, not to        *)
(* WSA_GAIN_LOW); a wsa_get_gain_rf that the instrument answers hands back *)
(* the gain whose keyword the instrument holds.                            *)
(***************************************************************************)
C29_GainKeywordRoundTrip ==
    /\ op \in {"wsa_set_gain_rf", "wsa_set_sweep_gain_rf"} =>
          /\ io # <<>> <=> arg \in WSA_GAIN_HIGH .. WSA_GAIN_VLOW
          /\ \A k \in 1 .. Len(io) :
                /\ io[k].ev = "write"
                /\ io[k].arg \in {"HIGH", "MED", "LOW", "VLOW"}
                /\ gain_rf_strtonum(io[k].arg) = arg
    /\ (op = "wsa_get_gain_rf" /\ Answered("INPUT:GAIN:RF?", inst.gain_rf)) =>
          (ret = 0 /\ GainName(mem.val) = inst.gain_rf)

\* C29 witness: the gain VLOW was set, and its keyword was written
C29_Witness ==
    /\ op \in {"wsa_set_gain_rf", "wsa_set_sweep_gain_rf"}
    /\ arg = WSA_GAIN_VLOW
    /\ ret = 0
    /\ Len(io) = 1
    /\ io[1].arg = "VLOW"
    /\ gain_rf_strtonum(io[1].arg) = WSA_GAIN_VLOW


(***************************************************************************)
(* C30: wsa_set_sweep_freq(start, stop) tests in a fixed order.  A start   *)
(* frequency outside the tune range gives WSA_ERR_STARTOOB, whatever the   *)
(* stop frequency is; otherwise a stop frequency outside the range gives   *)
(* WSA_ERR_STOPOOB; otherwise stop <= start gives WSA_ERR_INVSTOPFREQ.     *)
(* The command is written exactly when min <= start < stop <= max.         *)
(***************************************************************************)
C30_SweepFreqCheckOrder ==
    op = "wsa_set_sweep_freq" =>
        LET start == arg[1]
            stop == arg[2]
        IN  /\ ~InTuneRange(start) => ret = WSA_ERR_STARTOOB
            /\ (InTuneRange(start) /\ ~InTuneRange(stop)) => ret = WSA_ERR_STOPOOB
            /\ (InTuneRange(start) /\ InTuneRange(stop) /\ stop <= start) =>
                  ret = WSA_ERR_INVSTOPFREQ
            /\ ret \in {WSA_ERR_STARTOOB, WSA_ERR_STOPOOB, WSA_ERR_INVSTOPFREQ} => io = <<>>
            /\ io # <<>> <=>
                  (descr.min_tune_freq <= start /\ start < stop /\ stop <= descr.max_tune_freq)
            /\ io # <<>> =>
                  (Len(io) = 1 /\ io[1].ev = "write" /\ io[1].text = "SWEEP:ENTRY:FREQ:CENT"
                   /\ io[1].arg = <<start, stop>>)

\* C30 witness: both frequencies are outside the range, and the start
\* frequency is the one reported
C30_Witness ==
    /\ op = "wsa_set_sweep_freq"
    /\ ~InTuneRange(arg[1])
    /\ ~InTuneRange(arg[2])
    /\ arg[1] < 0
    /\ arg[2] > descr.max_tune_freq
    /\ ret = WSA_ERR_STARTOOB
    /\ io = <<>>


(***************************************************************************)
(* C31: wsa_flush_data and wsa_system_abort_capture ask for the sweep      *)
(* status first.  When the status is RUNNING they return                   *)
(* WSA_ERR_SWEEPALREADYRUNNING, when the status query fails they return    *)
(* its error, and in both cases neither SWEEP:FLUSH nor SYSTEM:ABORT is    *)
(* written: a command is written only after STOPPED was read in the same   *)
(* call.                                                                   *)
(***************************************************************************)
C31_CommandOnlyAfterStopped ==
    op \in {"wsa_flush_data", "wsa_system_abort_capture"} =>
        /\ NumWritten("SWEEP:LIST:STATUS?") = 1
        /\ io[1].text = "SWEEP:LIST:STATUS?"
        /\ Answered("SWEEP:LIST:STATUS?", "RUNNING") =>
              (ret = WSA_ERR_SWEEPALREADYRUNNING /\ Len(io) = 2)
        /\ QueryFailed("SWEEP:LIST:STATUS?") => (ret = io[2].res /\ ret < 0 /\ Len(io) = 2)
        /\ (NumWritten("SWEEP:FLUSH") + NumWritten("SYSTEM:ABORT") > 0) =>
              Answered("SWEEP:LIST:STATUS?", "STOPPED")


(***************************************************************************)
(* C32: whenever wsa_sweep_stop returns 0 the command channel saw, in this *)
(* order, SWEEP:LIST:STOP, a SWEEP:LIST:STATUS? query answered STOPPED and *)
(* SWEEP:FLUSH, and the data channel was drained only after these; when    *)
(* the status read after the stop command is still RUNNING, or any step    *)
(* fails, the call returns a negative error and reads nothing from the     *)
(* data channel.                                                           *)
(***************************************************************************)
C32_StopSequence ==
    op = "wsa_sweep_stop" =>
        /\ ret = 0 =>
              /\ Len(io) > 4
              /\ io[1].ev = "write" /\ io[1].text = "SWEEP:LIST:STOP" /\ io[1].res >= 0
              /\ io[2].ev = "write" /\ io[2].text = "SWEEP:LIST:STATUS?"
              /\ io[3].ev = "reply" /\ io[3].text = "STOPPED" /\ io[3].res > 0
              /\ io[4].ev = "write" /\ io[4].text = "SWEEP:FLUSH" /\ io[4].res >= 0
              /\ DataEvents = 5 .. Len(io)
        /\ ( \/ Answered("SWEEP:LIST:STATUS?", "RUNNING")
             \/ QueryFailed("SWEEP:LIST:STATUS?")
             \/ \E k \in 1 .. Len(io) : io[k].ch = "cmd" /\ io[k].res < 0 ) =>
              (ret < 0 /\ DataEvents = {})
        /\ ret # 0 => (ret < 0 /\ DataEvents = {})


(***************************************************************************)
(* C33: wsa_sweep_stop terminates.  Its drain loop runs only while         *)
(* clock() <= start + 5000; each iteration is one receive on the data      *)
(* channel whose result is thrown away; a call that has entered the loop   *)
(* comes to its return, and it returns 0 however many receives failed.     *)
(***************************************************************************)
C33_StopTerminates ==
    /\ [][ (loc.pc = "drain" /\ loc'.pc = "drain") =>
              /\ loc.clock <= loc.end_time
              /\ loc.end_time = loc'.end_time
              /\ loc'.clock >= loc.clock
              /\ \/ io' = io
                 \/ \E r \in RecvResults : io' = Append(io, Rv("discard", r))
              /\ UNCHANGED <<inst, op, ret>> ]_vars
    /\ [](loc.pc = "drain" => loc.clock <= loc.end_time + 5001)
    /\ [][ (loc.pc = "drain" /\ loc'.pc = "idle") =>
              (ret' = 0 /\ io' = io /\ inst' = inst /\ loc.clock > loc.end_time) ]_vars
    /\ (loc.pc = "drain") ~> (loc.pc = "idle" /\ op = "wsa_sweep_stop" /\ ret = 0)

\* C33 witness: the call has returned 0 after a loop in which every receive
\* that was made failed
C33_Witness ==
    /\ op = "wsa_sweep_stop"
    /\ loc.pc = "idle"
    /\ ret = 0
    /\ DataEvents # {}
    /\ \A k \in DataEvents : io[k].res < 0


(***************************************************************************)
(* C34: a getter of the sweep template accepts exactly the replies that    *)
(* the direct getter of the same parameter accepts: for the centre         *)
(* frequency, the frequency shift and the decimation, the sweep getter     *)
(* returns 0 for a reply exactly when the direct getter returns 0 for each *)
(* number in it.                                                           *)
(***************************************************************************)
\* what the direct getter returns when the instrument answers the number v
DirectFreq(v) == wsa_get_freq([inst EXCEPT !.freq = v], descr, "answer", 0).ret
DirectFreqShift(v) == wsa_get_freq_shift([inst EXCEPT !.fshift = v], descr, "answer", 0).ret
DirectDecimation(v) ==
    wsa_get_decimation([inst EXCEPT !.decimation = v], descr, "answer", 0).ret
\* the numbers of the reply that the last call read
ReplyNumbers ==
    LET tok == Tokens(io[2].text)
    IN  [k \in 1 .. Len(tok) |-> to_double(tok[k])]

C34_SweepGetterAcceptsSameReplies ==
    ( /\ op \in {"wsa_get_sweep_freq", "wsa_get_sweep_freq_shift", "wsa_get_sweep_decimation"}
      /\ Len(io) = 2
      /\ io[2].res > 0 ) =>
        LET nums == ReplyNumbers
            direct(v) == CASE op = "wsa_get_sweep_freq" -> DirectFreq(v)
                           [] op = "wsa_get_sweep_freq_shift" -> DirectFreqShift(v)
                           [] OTHER -> DirectDecimation(v)
        IN  ret = 0 <=>
              \A k \in 1 .. Len(nums) : nums[k].result = 0 /\ direct(nums[k].val) = 0


(***************************************************************************)
(* C35: wsa_sweep_entry_read is not atomic on error.  When the field at    *)
(* position k of the reply is not a number, the call returns               *)
(* WSA_ERR_RESPUNKNOWN with the members for the positions before k         *)
(* overwritten and the members for position k and after it as they were;   *)
(* when id < 0 or the status of the query is <= 0 no member is written.    *)
(***************************************************************************)
\* the member of the caller's struct that each position of the reply goes to
MemberAt ==
    << "start_freq", "stop_freq", "fstep", "fshift", "decimation_rate", "ant_port",
       "gain_rf", "gain_if", "samples_per_packet", "packets_per_block",
       "dwell_seconds", "dwell_microseconds", "trigger_enable",
       "trigger_start_freq", "trigger_stop_freq", "trigger_amplitude" >>

\* the positions of the reply tok that have to be numbers
NumberPositions(tok) ==
    ((1 .. 12) \ {7})
        \cup (IF Len(tok) >= 13 /\ strstr(tok[13], "LEVEL") THEN 14 .. 16 ELSE {})

\* the positions of the reply tok that are not the numbers they have to be
FailedPositions(tok) ==
    { k \in NumberPositions(tok) : k > Len(tok) \/ to_double(tok[k]).result < 0 }

\* what position j of the reply tok puts into its member
ValueAt(tok, j) ==
    CASE j = 7 -> gain_rf_strtonum(tok[j])
      [] j = 13 -> 1
      [] OTHER -> to_double(tok[j]).val

C35_PartialWriteOnError ==
    op = "wsa_sweep_entry_read" =>
        /\ (arg < 0 \/ (Len(io) = 2 /\ io[2].res <= 0)) =>
              mem.sweep_list = InitMem.sweep_list
        /\ (Len(io) = 2 /\ io[2].res > 0 /\ FailedPositions(Tokens(io[2].text)) # {}) =>
              LET tok == Tokens(io[2].text)
                  k == CHOOSE p \in FailedPositions(tok) :
                           \A q \in FailedPositions(tok) : p <= q
              IN  /\ ret = WSA_ERR_RESPUNKNOWN
                  /\ \A j \in 1 .. (k - 1) :
                        mem.sweep_list[MemberAt[j]] = ValueAt(tok, j)
                  /\ \A j \in k .. 16 :
                        mem.sweep_list[MemberAt[j]] = InitMem.sweep_list[MemberAt[j]]

\* C35 witness: the ninth field of the reply was not a number; the eight
\* members before it are written, the others are not
C35_Witness ==
    /\ op = "wsa_sweep_entry_read"
    /\ ret = WSA_ERR_RESPUNKNOWN
    /\ Len(io) = 2
    /\ FailedPositions(Tokens(io[2].text)) = {9}
    /\ mem.sweep_list.start_freq # InitMem.sweep_list.start_freq
    /\ mem.sweep_list.gain_if # InitMem.sweep_list.gain_if
    /\ mem.sweep_list.samples_per_packet = InitMem.sweep_list.samples_per_packet
    /\ mem.sweep_list.trigger_enable = InitMem.sweep_list.trigger_enable


(***************************************************************************)
(* C36: after a wsa_open over TCPIP that returned 0 the descriptor holds a *)
(* usable tune range: min_tune_freq <= max_tune_freq, so that the range    *)
(* test of the frequency setter lets at least one frequency through.       *)
(***************************************************************************)
C36_TuneRangeUsable ==
    (op = "wsa_open" /\ HasPrefix(arg, "TCPIP") /\ ret = 0) =>
        /\ descr.min_tune_freq <= descr.max_tune_freq
        /\ \E f \in {descr.min_tune_freq, descr.max_tune_freq} :
              wsa_verify_freq(descr, f) # WSA_ERR_FREQOUTOFBOUND


(***************************************************************************)
(* C37: what wsa_read_vrt_packet returns depends on the raw read only: it  *)
(* is the code of wsa_read_vrt_packet_raw when that is negative, and 0     *)
(* otherwise.  What wsa_decode_frame returns, and what the abort of the    *)
(* capture returns, never shows in the return value.                       *)
(***************************************************************************)
C37_ReturnFollowsRawRead ==
    op = "wsa_read_vrt_packet" =>
        /\ io[1].ev = "recv"
        /\ ret < 0 <=> io[1].res < 0
        /\ ret = (IF io[1].res < 0 THEN io[1].res ELSE 0)

\* C37 witness: a data packet was read and decoded into the caller's
\* buffers, and 0 was returned
C37_Witness ==
    /\ op = "wsa_read_vrt_packet"
    /\ io[1].text = "IF_DATA"
    /\ io[1].res = 0
    /\ ret = 0
    /\ mem.i_buffer # InitMem.i_buffer
    /\ mem.q_buffer # InitMem.q_buffer


(***************************************************************************)
(* C38: the getters of enumerated settings report success only for replies *)
(* they recognise: when wsa_get_gain_rf or wsa_get_sweep_gain_rf returns 0 *)
(* the gain stored is one of WSA_GAIN_HIGH, WSA_GAIN_MED, WSA_GAIN_LOW,    *)
(* WSA_GAIN_VLOW; when wsa_get_sweep_trigger_type returns 0 the enable     *)
(* stored is 0 or 1; a reply that is not recognised gives a negative       *)
(* error.                                                                  *)
(***************************************************************************)
C38_SuccessOnlyForKnownReplies ==
    /\ (op \in {"wsa_get_gain_rf", "wsa_get_sweep_gain_rf"} /\ Len(io) = 2 /\ io[2].res > 0) =>
          /\ ret = 0 => mem.val \in WSA_GAIN_HIGH .. WSA_GAIN_VLOW
          /\ (\A g \in {"HIGH", "MED", "LOW", "VLOW"} : ~strstr(io[2].text, g)) => ret < 0
    /\ (op = "wsa_get_sweep_trigger_type" /\ Len(io) = 2 /\ io[2].res > 0) =>
          /\ ret = 0 => mem.val \in {0, 1}
          /\ io[2].text \notin {"LEVEL", "NONE"} => ret < 0


(***************************************************************************)
(* C39: samples-per-packet is validated in its two setters.                *)
(* wsa_set_samples_per_packet and wsa_set_sweep_samples_per_packet write a *)
(* command exactly when WSA4000_MIN_SAMPLES_PER_PACKET <= n <=             *)
(* WSA4000_MAX_SAMPLES_PER_PACKET, refuse every other n with               *)
(* WSA_ERR_INVSAMPLESIZE without I/O, and the number they send, printed as *)
(* an unsigned 16-bit value, is n.  wsa_read_vrt_packet does not test      *)
(* samples_per_packet: it never returns WSA_ERR_INVSAMPLESIZE and reads    *)
(* the packet also for a number the setters refuse.                        *)
(***************************************************************************)
SamplesAdmitted(n) ==
    WSA4000_MIN_SAMPLES_PER_PACKET <= n /\ n <= WSA4000_MAX_SAMPLES_PER_PACKET

C39_SamplesValidatedInSetters ==
    /\ op \in {"wsa_set_samples_per_packet", "wsa_set_sweep_samples_per_packet"} =>
          /\ io # <<>> <=> SamplesAdmitted(arg)
          /\ ~SamplesAdmitted(arg) => ret = WSA_ERR_INVSAMPLESIZE
          /\ SamplesAdmitted(arg) =>
                /\ Len(io) = 1
                /\ io[1].ev = "write"
                /\ io[1].text = (IF op = "wsa_set_samples_per_packet"
                                 THEN "TRACE:SPPACKET" ELSE "SWEEP:ENTRY:SPPACKET")
                /\ io[1].arg = arg
                /\ ret = io[1].res
    /\ op = "wsa_read_vrt_packet" =>
          /\ ret # WSA_ERR_INVSAMPLESIZE
          /\ io # <<>>
          /\ io[1].ev = "recv"
          /\ io[1].res = 0 => ret = 0

\* C39 witness: the largest number of the range was set, and sent as it is
C39_Witness ==
    /\ op = "wsa_set_samples_per_packet"
    /\ arg = WSA4000_MAX_SAMPLES_PER_PACKET
    /\ ret = 0
    /\ io = <<Wr("TRACE:SPPACKET", WSA4000_MAX_SAMPLES_PER_PACKET, 0)>>

====
